---- MODULE Spec2Model ----
(***************************************************************************)
(* Document structure extractor of projectSynapse                          *)
(* (backend/app/core/pdf_parser_1a.py): heading classification, content    *)
(* association and hierarchy validation; the sentence chunker              *)
(* (backend/app/core/processing.py) and the writes to the search indices   *)
(* (backend/app/core/search.py).                                           *)
(*                                                                         *)
(* Text is a sequence of one-character strings.  A heading level label     *)
(* f"H{n}" is the pair <<"H", n>>.                                         *)
(***************************************************************************)
EXTENDS Integers, Sequences, FiniteSets, TLC

\* ------------------------------------------------------------------ bounds
\* Longest heading list handed to validate_hierarchy on its own.
MaxHeadings == 4
\* Deepest level label (H1 .. H<MaxLevel>) handed to validate_hierarchy on its own.
MaxLevel == 5

\* Most blocks in one document.
MaxBlocks == 3
\* Most pages in one document read by extract_text_blocks.
MaxPages == 2
\* Most sentences in a text handed to chunk_text.
MaxSentences == 4
\* Largest chunk_size and largest chunk_overlap handed to chunk_text.
MaxChunkSize == 3
MaxChunkOverlap == 3
\* Most threads that call add_chunks_to_index at the same time.
MaxThreads == 2

VARIABLES
    \* validate_hierarchy on its own
    vpc,        \* validator runs: "idle", "input", "once", "twice"
    vinput,     \* the heading list as it was built, before any run
    vonce,      \* the list the first run returned
    vheadings,  \* the heading dicts (validate_hierarchy rewrites them in place)
    \* extract_structure_from_pdf
    pc,               \* the step the extraction is at
    all_blocks,       \* what extract_text_blocks returned
    num_pages,
    doc_stats,
    title,
    filtered_blocks,
    headings,         \* the heading dicts, through all the steps
    blocks_for_ml,    \* references into filtered_blocks (indices)
    predictor_loaded, \* the model and the encoder were both loaded
    result,           \* the value returned
    pdf,              \* the document at pdf_path, as the page provider shows it
    \* chunk_text (backend/app/core/processing.py)
    cpc,            \* "idle", "loop" (at the while test), "done" (returned)
    sentences,      \* what sent_tokenize returned
    chunk_size,
    chunk_overlap,
    start,
    chunks,         \* the chunks so far, each with the slice it was cut from
    \* add_chunks_to_index (backend/app/core/search.py), one call per thread
    tpc,               \* where each thread is in its call
    calls,             \* the arguments of each thread's call: chunks, metadatas
    embeddings,        \* local to each call
    new_tokenized,     \* local to each call
    INDEX,             \* the vectors of the dense index, in the order added
    METADATA,
    TOKENIZED_CORPUS,
    BM25_INDEX,
    index_lock,        \* the threads that hold the lock: NoThread when it is free
    disk               \* the three files the indices are persisted to

vvars == <<vpc, vinput, vonce, vheadings>>
cvars == <<cpc, sentences, chunk_size, chunk_overlap, start, chunks>>
ivars == <<tpc, calls, embeddings, new_tokenized, INDEX, METADATA, TOKENIZED_CORPUS,
           BM25_INDEX, index_lock, disk>>
pvars == <<pc, all_blocks, num_pages, doc_stats, title, filtered_blocks, headings,
           blocks_for_ml, predictor_loaded, result, pdf>>
vars == <<vpc, vinput, vonce, vheadings, pc, all_blocks, num_pages, doc_stats, title,
          filtered_blocks, headings, blocks_for_ml, predictor_loaded, result, pdf,
          cpc, sentences, chunk_size, chunk_overlap, start, chunks,
          tpc, calls, embeddings, new_tokenized, INDEX, METADATA, TOKENIZED_CORPUS,
          BM25_INDEX, index_lock, disk>>

\* ------------------------------------------------------------------- text
\* Python str operations on sequences of one-character strings.
UpperLetters == <<"A", "B", "C", "D", "E", "F", "G", "H", "I", "J", "K", "L", "M", "N", "O", "P", "Q", "R", "S", "T", "U", "V", "W", "X", "Y", "Z">>
LowerLetters == <<"a", "b", "c", "d", "e", "f", "g", "h", "i", "j", "k", "l", "m", "n", "o", "p", "q", "r", "s", "t", "u", "v", "w", "x", "y", "z">>

IsDigitChar(c) == c \in {"0", "1", "2", "3", "4", "5", "6", "7", "8", "9"}
IsSpaceChar(c) == c \in {" ", "\t", "\n"}
IsUpperChar(c) == \E i \in 1..26 : UpperLetters[i] = c
IsLowerChar(c) == \E i \in 1..26 : LowerLetters[i] = c

LowerChar(c) ==
    IF IsUpperChar(c) THEN LowerLetters[CHOOSE i \in 1..26 : UpperLetters[i] = c] ELSE c

\* str.lower()
Lower(t) == [i \in 1..Len(t) |-> LowerChar(t[i])]

\* regex character classes: \d, \s, \S, [^0-9]
InClass(c, cls) ==
    CASE cls = "d" -> IsDigitChar(c)
      [] cls = "s" -> IsSpaceChar(c)
      [] cls = "S" -> ~IsSpaceChar(c)
      [] cls = "D" -> ~IsDigitChar(c)

\* how many leading characters from position i (1-based) satisfy the class
RECURSIVE RunLen(_, _, _)
RunLen(t, i, cls) ==
    IF i <= Len(t) /\ InClass(t[i], cls) THEN 1 + RunLen(t, i + 1, cls) ELSE 0

\* how many characters ending at position j (1-based) satisfy the class
RECURSIVE RunLenBack(_, _, _)
RunLenBack(t, j, cls) ==
    IF j >= 1 /\ InClass(t[j], cls) THEN 1 + RunLenBack(t, j - 1, cls) ELSE 0

\* str.strip()
Strip(t) ==
    LET a == RunLen(t, 1, "s")
    IN  IF a = Len(t) THEN <<>>
        ELSE SubSeq(t, a + 1, Len(t) - RunLenBack(t, Len(t), "s"))

\* "".join(parts)
RECURSIVE Concat(_)
Concat(parts) == IF parts = <<>> THEN <<>> ELSE Head(parts) \o Concat(Tail(parts))

\* sep.join(parts)
RECURSIVE Join(_, _)
Join(sep, parts) ==
    IF parts = <<>> THEN <<>>
    ELSE IF Len(parts) = 1 THEN parts[1]
    ELSE parts[1] \o sep \o Join(sep, Tail(parts))

\* str.split(): the maximal runs of non-whitespace, in order
RECURSIVE SplitFrom(_, _)
SplitFrom(t, i) ==
    IF i > Len(t) THEN <<>>
    ELSE IF IsSpaceChar(t[i]) THEN SplitFrom(t, i + 1)
    ELSE LET n == RunLen(t, i, "S")
         IN  <<SubSeq(t, i, i + n - 1)>> \o SplitFrom(t, i + n)

Split(t) == SplitFrom(t, 1)

\* len(t.split())
WordCount(t) == Len(Split(t))

\* set(t.split())
WordSet(t) == {Split(t)[i] : i \in 1..Len(Split(t))}

\* str.isdigit()
IsDigitText(t) == t # <<>> /\ \A i \in 1..Len(t) : IsDigitChar(t[i])

\* str.isupper(): some cased character, and no lowercase one
IsUpperText(t) ==
    /\ \E i \in 1..Len(t) : IsUpperChar(t[i])
    /\ \A i \in 1..Len(t) : ~IsLowerChar(t[i])

\* str.istitle(): some cased character; an uppercase one only after an uncased
\* one (or at the start), a lowercase one only after a cased one
IsTitleText(t) ==
    /\ \E i \in 1..Len(t) : IsUpperChar(t[i]) \/ IsLowerChar(t[i])
    /\ \A i \in 1..Len(t) :
          LET prev_cased == i > 1 /\ (IsUpperChar(t[i - 1]) \/ IsLowerChar(t[i - 1]))
          IN  /\ IsUpperChar(t[i]) => ~prev_cased
              /\ IsLowerChar(t[i]) => prev_cased

\* pat is found in t at 1-based position i
MatchAt(t, i, pat) ==
    /\ i + Len(pat) - 1 <= Len(t)
    /\ \A k \in 1..Len(pat) : t[i + k - 1] = pat[k]

\* pat in t
Contains(t, pat) == \E i \in 1..(Len(t) - Len(pat) + 1) : MatchAt(t, i, pat)

\* t.startswith(pat), t.endswith(pat)
StartsWith(t, pat) == MatchAt(t, 1, pat)
EndsWith(t, pat) == Len(pat) <= Len(t) /\ MatchAt(t, Len(t) - Len(pat) + 1, pat)

\* t.replace('  ', ' '): each non-overlapping pair of spaces, left to right
RECURSIVE ReplaceDoubleSpace(_)
ReplaceDoubleSpace(t) ==
    IF Len(t) < 2 THEN t
    ELSE IF t[1] = " " /\ t[2] = " " THEN <<" ">> \o ReplaceDoubleSpace(SubSeq(t, 3, Len(t)))
    ELSE <<t[1]>> \o ReplaceDoubleSpace(Tail(t))

\* ------------------------------------------------------------ level labels
\* f"H{n}"
HLabel(n) == <<"H", n>>

\* None, where a level label is expected
NoLevel == <<>>

\* ----------------------------------------------------------------- blocks
\* A block is the dict extract_text_blocks returns:
\*   [type, page_num, source, bbox, lines, page_height, page_width]
\* bbox = <<x0, y0, x1, y1>>; a line is [spans, bbox]; a span is
\* [text, size, font].  source is "pymupdf" or "ocr".
bbox_x0(b) == b.bbox[1]
bbox_y0(b) == b.bbox[2]

\* [span['text'] for line in block['lines'] for span in line['spans']]
RECURSIVE SpansOfLines(_)
SpansOfLines(lines) ==
    IF lines = <<>> THEN <<>> ELSE Head(lines).spans \o SpansOfLines(Tail(lines))

SpansOf(block) == SpansOfLines(block.lines)
SpanTexts(block) == [i \in 1..Len(SpansOf(block)) |-> SpansOf(block)[i].text]

\* "".join(span['text'] ...).strip()
block_text(block) == Strip(Concat(SpanTexts(block)))

RECURSIVE SumSeq(_)
SumSeq(q) == IF q = <<>> THEN 0 ELSE Head(q) + SumSeq(Tail(q))

SpanSizes(block) == [i \in 1..Len(SpansOf(block)) |-> SpansOf(block)[i].size]

\* 'bold' in font.lower()
IsBoldFont(font) == Contains(Lower(font), <<"b", "o", "l", "d">>)

\* any('bold' in s.get('font', '').lower() for the spans of the block)
block_is_bold(block) == \E i \in 1..Len(SpansOf(block)) : IsBoldFont(SpansOf(block)[i].font)

\* sorted(q)
RECURSIVE InsertSorted(_, _)
InsertSorted(q, x) ==
    IF q = <<>> THEN <<x>>
    ELSE IF x < Head(q) THEN <<x>> \o q
    ELSE <<Head(q)>> \o InsertSorted(Tail(q), x)

RECURSIVE SortedInts(_)
SortedInts(q) ==
    IF q = <<>> THEN <<>> ELSE InsertSorted(SortedInts(SubSeq(q, 1, Len(q) - 1)), q[Len(q)])

\* get_document_stats: the font sizes of every span of the non-OCR blocks;
\* sorted(font_sizes)[len(font_sizes) // 2], or 12.0 when there is none
NativeSizes(blocks) ==
    Concat([i \in 1..Len(blocks) |->
               IF blocks[i].source = "ocr" THEN <<>> ELSE SpanSizes(blocks[i])])

\* (mutation) the lower of the two middle sizes is taken when the count is even
get_document_stats_lower_middle(blocks) ==
    LET font_sizes == NativeSizes(blocks)
    IN  IF font_sizes = <<>> THEN [median_size |-> 12]
        ELSE [median_size |-> SortedInts(font_sizes)[((Len(font_sizes) - 1) \div 2) + 1]]

get_document_stats(blocks) ==
    LET font_sizes == NativeSizes(blocks)
    IN  IF font_sizes = <<>> THEN [median_size |-> 12]
        ELSE [median_size |-> SortedInts(font_sizes)[(Len(font_sizes) \div 2) + 1]]

\* ------------------------------------------------------- tabular detection
\* calculate_average_line_spacing: the positive gaps between the bottom of a
\* line and the top of the next one, in the non-OCR blocks.  The mean is kept
\* as the fraction <<sum, count>>; <<12, 1>> is the default 12.0.
LineGaps(block) ==
    IF block.source = "ocr" \/ Len(block.lines) < 2 THEN <<>>
    ELSE [i \in 1..(Len(block.lines) - 1) |-> block.lines[i + 1].bbox[2] - block.lines[i].bbox[4]]

PositiveOnly(q) == SelectSeq(q, LAMBDA g : g > 0)

calculate_average_line_spacing(blocks) ==
    LET spacings == Concat([i \in 1..Len(blocks) |-> PositiveOnly(LineGaps(blocks[i]))])
    IN  IF spacings = <<>> THEN <<12, 1>> ELSE <<SumSeq(spacings), Len(spacings)>>

Abs(x) == IF x < 0 THEN -x ELSE x

\* re.match(r'^\d+\.', text)
MatchesNumberDot(text) ==
    LET d == RunLen(text, 1, "d")
    IN  d >= 1 /\ d + 1 <= Len(text) /\ text[d + 1] = "."

\* re.match(r'^\d+\.\s+[A-Z][a-z]', text)
MatchesFormFieldLabel(text) ==
    LET d == RunLen(text, 1, "d")
        w == RunLen(text, d + 2, "s")
    IN  /\ MatchesNumberDot(text)
        /\ w >= 1
        /\ d + 1 + w + 2 <= Len(text)
        /\ IsUpperChar(text[d + 1 + w + 1])
        /\ IsLowerChar(text[d + 1 + w + 2])

form_keywords == <<
    <<"n", "a", "m", "e">>,
    <<"d", "e", "s", "i", "g", "n", "a", "t", "i", "o", "n">>,
    <<"p", "a", "y">>,
    <<"p", "e", "r", "m", "a", "n", "e", "n", "t">>,
    <<"t", "e", "m", "p", "o", "r", "a", "r", "y">>,
    <<"h", "o", "m", "e", " ", "t", "o", "w", "n">>,
    <<"s", "e", "r", "v", "i", "c", "e", " ", "b", "o", "o", "k">>,
    <<"a", "d", "v", "a", "n", "c", "e", " ", "r", "e", "q", "u", "i", "r", "e", "d">>,
    <<"g", "o", "v", "e", "r", "n", "m", "e", "n", "t", " ", "s", "e", "r", "v", "a", "n", "t">>,
    <<"a", "m", "o", "u", "n", "t">> >>

is_table_block(block, blocks, stats) ==
    IF block.source = "ocr" THEN FALSE
    ELSE
    LET text == block_text(block)
        text_lower == Lower(text)
        x0 == bbox_x0(block)
        y0 == bbox_y0(block)
        page_width == block.page_width
        avg_spacing == calculate_average_line_spacing(blocks)
        adjacent_blocks == SelectSeq(blocks, LAMBDA other :
                               /\ other # block
                               /\ other.source # "ocr"
                               /\ Abs(bbox_y0(other) - y0) * avg_spacing[2] < avg_spacing[1] * 2)
        sum_adjacent_x0 == SumSeq([i \in 1..Len(adjacent_blocks) |-> bbox_x0(adjacent_blocks[i])])
        gaps == IF Len(block.lines) < 2 THEN <<>>
                ELSE [i \in 1..(Len(block.lines) - 1) |->
                         block.lines[i + 1].bbox[2] - block.lines[i].bbox[4]]
    IN  \/ MatchesFormFieldLabel(text)
        \/ /\ \E k \in 1..Len(form_keywords) : Contains(text_lower, form_keywords[k])
           /\ MatchesNumberDot(Strip(text))
        \/ /\ Len(text) < 30
           /\ \/ x0 * 10 > page_width * 2
              \/ /\ adjacent_blocks # <<>>
                 /\ Abs(x0 * Len(adjacent_blocks) - sum_adjacent_x0) * 10
                        > page_width * Len(adjacent_blocks)
              \/ \E i \in 1..Len(gaps) : gaps[i] * avg_spacing[2] * 10 < avg_spacing[1] * 8

\* --------------------------------------------------- header/footer removal
\* "header" if y0 < page_height * 0.15 else "footer" if y0 > page_height * 0.85 else None
pos_key(block) ==
    IF bbox_y0(block) * 100 < block.page_height * 15 THEN "header"
    ELSE IF bbox_y0(block) * 100 > block.page_height * 85 THEN "footer"
    ELSE "None"

\* the block is counted by the first loop of filter_headers_footers
counts_as_hf(block, median_size) ==
    LET text == Lower(block_text(block))
        sizes == SpanSizes(block)
        large == /\ block.source # "ocr"
                 /\ sizes # <<>>
                 /\ SumSeq(sizes) * 10 > median_size * 12 * Len(sizes)
    IN  /\ 2 < Len(text) /\ Len(text) < 80
        /\ ~IsDigitText(text)
        /\ ~large
        /\ pos_key(block) # "None"

hf_key(block) == <<Lower(block_text(block)), pos_key(block)>>

\* (mutation) the early return for fewer than 3 pages is left out
filter_headers_footers_any_page_count(blocks, npages, stats) ==
    LET median_size == stats.median_size
        potential_hf(key) ==
            Cardinality({i \in 1..Len(blocks) :
                            counts_as_hf(blocks[i], median_size) /\ hf_key(blocks[i]) = key})
        hf_signatures == {hf_key(blocks[i]) : i \in {j \in 1..Len(blocks) :
                              /\ counts_as_hf(blocks[j], median_size)
                              /\ potential_hf(hf_key(blocks[j])) * 2 >= npages}}
    IN  SelectSeq(blocks, LAMBDA b : hf_key(b) \notin hf_signatures)

\* (mutation) a signature has to be counted once for every page
filter_headers_footers_every_page(blocks, npages, stats) ==
    IF npages < 3 THEN blocks
    ELSE
    LET median_size == stats.median_size
        potential_hf(key) ==
            Cardinality({i \in 1..Len(blocks) :
                            counts_as_hf(blocks[i], median_size) /\ hf_key(blocks[i]) = key})
        hf_signatures == {hf_key(blocks[i]) : i \in {j \in 1..Len(blocks) :
                              /\ counts_as_hf(blocks[j], median_size)
                              /\ potential_hf(hf_key(blocks[j])) >= npages}}
    IN  SelectSeq(blocks, LAMBDA b : hf_key(b) \notin hf_signatures)

filter_headers_footers(blocks, npages, stats) ==
    IF npages < 3 THEN blocks
    ELSE
    LET median_size == stats.median_size
        potential_hf(key) ==
            Cardinality({i \in 1..Len(blocks) :
                            counts_as_hf(blocks[i], median_size) /\ hf_key(blocks[i]) = key})
        hf_signatures == {hf_key(blocks[i]) : i \in {j \in 1..Len(blocks) :
                              /\ counts_as_hf(blocks[j], median_size)
                              /\ potential_hf(hf_key(blocks[j])) * 2 >= npages}}
    IN  SelectSeq(blocks, LAMBDA b : hf_key(b) \notin hf_signatures)

\* (mutation) the tabular pass is left out for fewer than 3 pages
remove_headers_footers_tables_long_documents(blocks, npages, stats) ==
    IF npages < 3
    THEN blocks
    ELSE SelectSeq(filter_headers_footers(blocks, npages, stats),
                   LAMBDA b : ~is_table_block(b, blocks, stats))

remove_headers_footers_tables(blocks, npages, stats) ==
    IF npages < 3
    THEN SelectSeq(blocks, LAMBDA b : ~is_table_block(b, blocks, stats))
    ELSE SelectSeq(filter_headers_footers(blocks, npages, stats),
                   LAMBDA b : ~is_table_block(b, blocks, stats))

\* ------------------------------------------------------------ stable sort
\* list.sort(key=...) on pairs of integers: the permutation of 1..n that
\* orders keys[1..n] ascending and keeps equal keys in their original order.
PairLess(a, b) == a[1] < b[1] \/ (a[1] = b[1] /\ a[2] < b[2])

RECURSIVE InsertIdx(_, _, _)
InsertIdx(sorted, i, keys) ==
    IF sorted = <<>> THEN <<i>>
    ELSE IF PairLess(keys[i], keys[Head(sorted)]) THEN <<i>> \o sorted
    ELSE <<Head(sorted)>> \o InsertIdx(Tail(sorted), i, keys)

RECURSIVE SortIdx(_, _)
SortIdx(keys, n) ==
    IF n = 0 THEN <<>> ELSE InsertIdx(SortIdx(keys, n - 1), n, keys)

SortByKeys(q, keys) == [i \in 1..Len(q) |-> q[SortIdx(keys, Len(q))[i]]]

\* --------------------------------------------------------------- find_title
\* " ".join(s['text'].strip() for s in line['spans'] if s['text'].strip()).strip()
line_text(line) ==
    LET stripped == [i \in 1..Len(line.spans) |-> Strip(line.spans[i].text)]
    IN  Strip(Join(<<" ">>, SelectSeq(stripped, LAMBDA t : t # <<>>)))

LinesOf(blocks) == Concat([i \in 1..Len(blocks) |-> blocks[i].lines])

\* re.sub(r'(RFP: ?)+', 'RFP:', t, flags=re.I)
RECURSIVE RfpRunLen(_, _)
RfpRunLen(t, i) ==
    IF MatchAt(Lower(t), i, <<"r", "f", "p", ":">>)
    THEN LET unit == IF i + 4 <= Len(t) /\ t[i + 4] = " " THEN 5 ELSE 4
         IN  unit + RfpRunLen(t, i + unit)
    ELSE 0

RECURSIVE SubRfpRuns(_, _)
SubRfpRuns(t, i) ==
    IF i > Len(t) THEN <<>>
    ELSE IF RfpRunLen(t, i) > 0 THEN <<"R", "F", "P", ":">> \o SubRfpRuns(t, i + RfpRunLen(t, i))
    ELSE <<t[i]>> \o SubRfpRuns(t, i + 1)

\* drop a word equal (ignoring case) to the word kept before it
RECURSIVE DedupeWords(_, _)
DedupeWords(words, deduped) ==
    IF words = <<>> THEN deduped
    ELSE IF deduped = <<>> \/ Lower(Head(words)) # Lower(deduped[Len(deduped)])
         THEN DedupeWords(Tail(words), Append(deduped, Head(words)))
         ELSE DedupeWords(Tail(words), deduped)

\* t[i:] is one or more 'oposal' each optionally followed by a space, up to the end
RECURSIVE IsOposalTail(_, _)
IsOposalTail(t, i) ==
    /\ MatchAt(t, i, <<"o", "p", "o", "s", "a", "l">>)
    /\ \/ i + 6 > Len(t)
       \/ IsOposalTail(t, i + 6)
       \/ (t[i + 6] = " " /\ (i + 7 > Len(t) \/ IsOposalTail(t, i + 7)))

\* re.sub(r'(oposal ?)+$', 'oposal', t)
SubOposalTail(t) ==
    IF \E i \in 1..Len(t) : IsOposalTail(t, i)
    THEN LET first == CHOOSE i \in 1..Len(t) :
                          IsOposalTail(t, i) /\ \A j \in 1..(i - 1) : ~IsOposalTail(t, j)
         IN  SubSeq(t, 1, first - 1) \o <<"o", "p", "o", "s", "a", "l">>
    ELSE t

\* re.sub(r'RFP:$', '', t).strip()
SubRfpEnd(t) ==
    Strip(IF EndsWith(t, <<"R", "F", "P", ":">>) THEN SubSeq(t, 1, Len(t) - 4) ELSE t)

rfp_title(rfp_block, proposal_block) ==
    LET deduped == Join(<<" ">>, DedupeWords(Split(SubRfpRuns(rfp_block, 1)), <<>>))
        rfp_clean == SubRfpEnd(SubOposalTail(deduped))
    IN  Strip(ReplaceDoubleSpace(rfp_clean \o <<" ">> \o proposal_block))

title_stop_keywords == <<
    <<"d", "a", "t", "e", ":">>,
    <<"t", "i", "m", "e", ":">>,
    <<"a", "d", "d", "r", "e", "s", "s", ":">>,
    <<"t", "e", "l", ":">>,
    <<"f", "a", "x", ":">>,
    <<"v", "e", "r", "s", "i", "o", "n">>,
    <<"p", "a", "g", "e">>,
    <<"c", "o", "n", "f", "i", "d", "e", "n", "t", "i", "a", "l">> >>

\* re.match(r'^file\d+\.pdf$', t)
MatchesFilename(t) ==
    LET d == RunLen(t, 5, "d")
    IN  /\ StartsWith(t, <<"f", "i", "l", "e">>)
        /\ d >= 1
        /\ SubSeq(t, 5 + d, Len(t)) = <<".", "p", "d", "f">>

\* the score find_title gives a line: average size against the largest size on
\* the page, boldness, word count
title_score(line, text, max_font_size) ==
    LET sum == SumSeq([i \in 1..Len(line.spans) |-> line.spans[i].size])
        n == Len(line.spans)
    IN  (IF sum * 10 >= max_font_size * 9 * n THEN 5
         ELSE IF sum * 10 > max_font_size * 7 * n THEN 2 ELSE 0)
        + (IF \E i \in 1..n : IsBoldFont(line.spans[i].font) THEN 2 ELSE 0)
        + (IF WordCount(text) < 15 THEN 1 ELSE 0)

\* a line find_title scores: long enough, no stop keyword, not a "~" line, not
\* a number
is_title_line_text(text) ==
    /\ Len(text) >= 3
    /\ ~\E k \in 1..Len(title_stop_keywords) : Contains(Lower(text), title_stop_keywords[k])
    /\ text[1] # "~"
    /\ ~IsDigitText(text)

\* the entry find_title appends to candidate_lines: [text, score, y0, size],
\* size being the fraction <<sum, count>>
title_candidate(line, text, max_font_size) ==
    [text |-> text,
     score |-> title_score(line, text, max_font_size),
     y0 |-> line.bbox[2],
     size |-> <<SumSeq([k \in 1..Len(line.spans) |-> line.spans[k].size]), Len(line.spans)>>]

candidates_from(eligible, max_font_size) ==
    [i \in 1..Len(eligible) |->
        title_candidate(eligible[i], line_text(eligible[i]), max_font_size)]

\* the lines find_title scores, in block and line order
title_candidates(first_page_blocks, max_font_size) ==
    candidates_from(
        SelectSeq(LinesOf(SelectSeq(first_page_blocks, LAMBDA b : ~(bbox_y0(b) > 400))),
                  LAMBDA l : is_title_line_text(line_text(l))),
        max_font_size)

\* the loop that gathers the lines of a multi-line title around the best one
RECURSIVE absorb_title_parts(_, _, _)
absorb_title_parts(rest, title_parts, best) ==
    IF rest = <<>> THEN title_parts
    ELSE IF /\ Head(rest).score >= best.score - 2
            /\ Abs(Head(rest).y0 - title_parts[Len(title_parts)].y0) * 2 * best.size[2]
                   < best.size[1] * 5
         THEN absorb_title_parts(Tail(rest), Append(title_parts, Head(rest)), best)
         ELSE absorb_title_parts(Tail(rest), title_parts, best)

Max2(a, b) == IF a > b THEN a ELSE b

RECURSIVE MaxSeq(_)
MaxSeq(q) == IF q = <<>> THEN 0 ELSE Max2(Head(q), MaxSeq(Tail(q)))

\* the filename and length tests on the joined title
checked_title(ttl) ==
    IF MatchesFilename(Lower(ttl)) \/ Len(ttl) < 3 THEN <<>> ELSE ttl

\* " ".join(p['text'] for p in title_parts).replace('  ', ' ').strip()
joined_title(parts) ==
    checked_title(Strip(ReplaceDoubleSpace(
        Join(<<" ">>, [i \in 1..Len(parts) |-> parts[i].text]))))

sorted_title_parts(parts) ==
    joined_title(SortByKeys(parts, [i \in 1..Len(parts) |-> <<parts[i].y0, 0>>]))

best_title(sorted) ==
    sorted_title_parts(absorb_title_parts(Tail(sorted), <<sorted[1]>>, sorted[1]))

\* candidate_lines.sort(key=(-score, y0)) and what follows
scored_title(candidate_lines) ==
    IF candidate_lines = <<>> THEN <<>>
    ELSE best_title(SortByKeys(candidate_lines,
                               [i \in 1..Len(candidate_lines) |->
                                   <<-candidate_lines[i].score, candidate_lines[i].y0>>]))

title_by_score(first_page_blocks, max_font_size) ==
    IF max_font_size = 0 THEN <<>>
    ELSE scored_title(title_candidates(first_page_blocks, max_font_size))

title_from_lines(first_page_blocks, rfp_lines, proposal_lines) ==
    IF rfp_lines # <<>> /\ proposal_lines # <<>>
    THEN rfp_title(rfp_lines[Len(rfp_lines)], proposal_lines[Len(proposal_lines)])
    ELSE title_by_score(first_page_blocks, MaxSeq(NativeSizes(first_page_blocks)))

title_from_texts(first_page_blocks, texts) ==
    title_from_lines(
        first_page_blocks,
        SelectSeq(texts, LAMBDA t : Contains(Lower(t), <<"r", "f", "p">>)),
        SelectSeq(texts, LAMBDA t :
            Contains(Lower(t), <<"t", "o", " ", "p", "r", "e", "s", "e", "n", "t", " ", "a", " ", "p", "r", "o", "p", "o", "s", "a", "l">>)))

\* the texts of the lines of the first page that have at least 3 characters
page_line_texts(lines) ==
    SelectSeq([i \in 1..Len(lines) |-> line_text(lines[i])], LAMBDA t : Len(t) >= 3)

title_of_first_page(first_page_blocks) ==
    IF first_page_blocks = <<>> THEN <<>>
    ELSE title_from_texts(first_page_blocks, page_line_texts(LinesOf(first_page_blocks)))

find_title(blocks) ==
    title_of_first_page(SelectSeq(blocks, LAMBDA b : b.page_num = 0 /\ b.type = 0))

\* ------------------------------------------------------ validate_hierarchy

\* int(heading['level'].replace('H', ''))
level_int(label) == label[2]

\* (mutation) the skip test dropped: only the 4-to-3 conversion is left
validated_level_no_demotion(current_level, last_level) ==
    IF current_level = 4 THEN 3 ELSE current_level

\* (mutation) the skip test written != instead of >: a shallow heading is
\* pulled down to last_level + 1 as well
validated_level_promotes(current_level, last_level) ==
    LET clamped == IF current_level = 4 THEN 3 ELSE current_level
    IN  IF clamped # last_level + 1 THEN last_level + 1 ELSE clamped

\* One iteration of the loop of validate_hierarchy: the 4-to-3 conversion,
\* then the demotion of a level that skips.  Returns the level number the
\* heading leaves the iteration with.
validated_level(current_level, last_level) ==
    LET clamped == IF current_level = 4 THEN 3 ELSE current_level
    IN  IF clamped > last_level + 1 THEN last_level + 1 ELSE clamped

RECURSIVE validate_from(_, _, _)
validate_from(hs, i, last_level) ==
    IF i > Len(hs) THEN <<>>
    ELSE LET lvl == validated_level(level_int(hs[i].level), last_level)
         IN  <<[hs[i] EXCEPT !.level = HLabel(lvl)]>>
                 \o validate_from(hs, i + 1, lvl)

validate_hierarchy(hs) ==
    IF hs = <<>> THEN <<>> ELSE validate_from(hs, 1, 0)

\* ----------------------------------------------------------- is_title_block
\* (mutation) the threshold raised to 0.9
is_title_block_ninety(block, ttl) ==
    IF ttl = <<>> THEN FALSE
    ELSE LET block_text_norm == Join(<<" ">>, Split(block_text(block)))
             title_words == WordSet(Lower(ttl))
             block_words == WordSet(Lower(block_text_norm))
             overlap == Cardinality(title_words \cap block_words)
         IN  /\ Cardinality(title_words) > 0
             /\ overlap * 10 > Cardinality(title_words) * 9

\* overlap / len(title_words) > 0.7, on the sets of lower-cased words
is_title_block(block, ttl) ==
    IF ttl = <<>> THEN FALSE
    ELSE LET block_text_norm == Join(<<" ">>, Split(block_text(block)))
             title_words == WordSet(Lower(ttl))
             block_words == WordSet(Lower(block_text_norm))
             overlap == Cardinality(title_words \cap block_words)
         IN  /\ Cardinality(title_words) > 0
             /\ overlap * 10 > Cardinality(title_words) * 7

\* -------------------------------------------------- classify_numbered_heading
\* length of the match of \d+(\.\d+)* at the start of t (0: no match)
RECURSIVE NumeralGroups(_, _)
NumeralGroups(t, pos) ==
    IF pos <= Len(t) /\ t[pos] = "." /\ RunLen(t, pos + 1, "d") >= 1
    THEN 1 + RunLen(t, pos + 1, "d") + NumeralGroups(t, pos + 1 + RunLen(t, pos + 1, "d"))
    ELSE 0

NumeralLen(t) ==
    LET d == RunLen(t, 1, "d")
    IN  IF d = 0 THEN 0 ELSE d + NumeralGroups(t, d + 1)

\* \s+\d+\.\d+ matches at position i
TailNumeral(t, i) ==
    LET w == RunLen(t, i, "s")
        d == RunLen(t, i + w, "d")
    IN  /\ w >= 1 /\ d >= 1
        /\ i + w + d <= Len(t) /\ t[i + w + d] = "."
        /\ RunLen(t, i + w + d + 1, "d") >= 1

\* \s+\d+$ matches at position i
TailPageNumber(t, i) ==
    LET w == RunLen(t, i, "s")
        d == RunLen(t, i + w, "d")
    IN  w >= 1 /\ d >= 1 /\ i + w + d = Len(t) + 1

\* the end position of the lazy group [^0-9]+? that starts at p, given what
\* may follow it (0: no match)
LabelEnd(t, p, allow_end) ==
    LET nd == RunLen(t, p, "D")
        ok(q) == \/ TailNumeral(t, q + 1)
                 \/ TailPageNumber(t, q + 1)
                 \/ (allow_end /\ q = Len(t))
    IN  IF \E q \in p..(p + nd - 1) : ok(q)
        THEN CHOOSE q \in p..(p + nd - 1) : ok(q) /\ \A r \in p..(q - 1) : ~ok(r)
        ELSE 0

\* re.match(r'^\s*(\d+(\.\d+)*)\.?\s+([^0-9]+?)(?:\s+\d+\.\d+|\s+\d+$|$)', full_text):
\* [matched, num_str, remaining_text]
numbered_match(full_text) ==
    LET n == NumeralLen(full_text)
        dot == IF n + 1 <= Len(full_text) /\ full_text[n + 1] = "." THEN 1 ELSE 0
        w == RunLen(full_text, n + dot + 1, "s")
        p == n + dot + w + 1
        q == LabelEnd(full_text, p, TRUE)
    IN  IF n >= 1 /\ w >= 1 /\ q > 0
        THEN [matched |-> TRUE, num_str |-> SubSeq(full_text, 1, n),
              remaining_text |-> SubSeq(full_text, p, q)]
        ELSE [matched |-> FALSE, num_str |-> <<>>, remaining_text |-> <<>>]

\* str.count('.')
CountDots(t) == Cardinality({i \in 1..Len(t) : t[i] = "."})

\* (mutation) a numbering of any depth is accepted
numbered_level_any_depth(full_text) ==
    LET m == numbered_match(full_text)
        level == CountDots(m.num_str) + 1
    IN  IF ~m.matched THEN NoLevel
        ELSE IF WordCount(m.remaining_text) < 2 /\ Len(m.remaining_text) < 15 THEN NoLevel
        ELSE HLabel(level)

\* the level label the numbering pattern gives full_text, or None
numbered_level(full_text) ==
    LET m == numbered_match(full_text)
        level == CountDots(m.num_str) + 1
    IN  IF ~m.matched THEN NoLevel
        ELSE IF WordCount(m.remaining_text) < 2 /\ Len(m.remaining_text) < 15 THEN NoLevel
        ELSE IF 1 <= level /\ level <= 3 THEN HLabel(level)
        ELSE NoLevel

classify_numbered_heading(block, blocks, stats) ==
    IF is_table_block(block, blocks, stats) THEN NoLevel
    ELSE numbered_level(block_text(block))

\* ---------------------------------------------------- classify_styled_heading
\* re.search(r'[\.]{3,}\s+\d+$', text)
EndsWithDottedLeader(text) ==
    LET d == RunLenBack(text, Len(text), "d")
        w == RunLenBack(text, Len(text) - d, "s")
        e == Len(text) - d - w
    IN  /\ d >= 1 /\ w >= 1 /\ e >= 3
        /\ text[e] = "." /\ text[e - 1] = "." /\ text[e - 2] = "."

\* re.search(r'\s+\d+$', text)
EndsWithNumber(text) ==
    LET d == RunLenBack(text, Len(text), "d")
    IN  d >= 1 /\ RunLenBack(text, Len(text) - d, "s") >= 1

\* the greatest power of two that is at most v (v >= 1)
RECURSIVE Pow2Floor(_)
Pow2Floor(v) == IF v < 2 THEN 1 ELSE 2 * Pow2Floor(v \div 2)

\* The factors of the size tests as the doubles Python compares with: 1.15
\* and 1.4 are stored 0.4 units of 2^-52 below the decimal, 1.2 is stored 0.2
\* units below, 1.25 is exact.  'below' counts tenths of 2^-52.
Factor115 == [num |-> 115, den |-> 100, below |-> 4]
Factor120 == [num |-> 12, den |-> 10, below |-> 2]
Factor125 == [num |-> 125, den |-> 100, below |-> 0]
Factor140 == [num |-> 14, den |-> 10, below |-> 4]

\* avg_font_size > median_size * factor, in double precision, for the
\* average sum / n of integer sizes and an integer median.  Away from the
\* threshold the rounding does not change the comparison.  When sum / n is
\* exactly factor times the median, the product median_size * factor is the
\* double nearest to (sum / n) - median_size * below / 10 * 2^-52, which is
\* below sum / n as soon as that distance is more than half the spacing
\* 2^(e - 52) of the doubles at sum / n, 2^e <= sum / n < 2^(e + 1); at
\* exactly half the spacing the product rounds to sum / n.  (With fewer than
\* five spans sum / n is then itself a double.)
float_exceeds(sum, n, median_size, factor) ==
    IF sum * factor.den # median_size * factor.num * n
    THEN sum * factor.den > median_size * factor.num * n
    ELSE median_size * factor.below > 5 * Pow2Floor(sum \div n)

classify_styled_heading(block, stats, blocks) ==
    IF is_table_block(block, blocks, stats) THEN NoLevel
    ELSE
    LET text == block_text(block)
        word_count == WordCount(text)
        area == (block.bbox[3] - block.bbox[1]) * (block.bbox[4] - block.bbox[2])
        sum == SumSeq(SpanSizes(block))
        n == Len(SpansOf(block))
        is_bold == block_is_bold(block)
        median_size == stats.median_size
    IN  IF ~(1 <= word_count /\ word_count < 30) THEN NoLevel
        ELSE IF EndsWith(text, <<".">>) \/ EndsWith(text, <<":">>) \/ EndsWith(text, <<",">>)
             THEN NoLevel
        ELSE IF EndsWithDottedLeader(text) \/ (EndsWithNumber(text) /\ word_count > 5)
             THEN NoLevel
        ELSE IF block.source = "ocr"
             THEN (IF area > 50000 /\ word_count < 10 THEN HLabel(1) ELSE NoLevel)
        ELSE IF n = 0 THEN NoLevel
        ELSE IF float_exceeds(sum, n, median_size, Factor140) /\ (is_bold \/ IsUpperText(text)) THEN HLabel(1)
        ELSE IF float_exceeds(sum, n, median_size, Factor125) /\ (is_bold \/ IsUpperText(text)) THEN HLabel(2)
        ELSE IF \/ (float_exceeds(sum, n, median_size, Factor115) /\ is_bold)
                \/ (float_exceeds(sum, n, median_size, Factor120) /\ IsTitleText(text))
             THEN HLabel(3)
        ELSE NoLevel

\* --------------------------------------------------------- clean_heading_text
\* re.sub(r'\s+\d+\s*$', '', text)
StripTrailingNumber(text) ==
    LET b == RunLenBack(text, Len(text), "s")
        d == RunLenBack(text, Len(text) - b, "d")
        w == RunLenBack(text, Len(text) - b - d, "s")
    IN  IF d >= 1 /\ w >= 1 THEN SubSeq(text, 1, Len(text) - b - d - w) ELSE text

\* text.rstrip('.,:;')
RECURSIVE RStripPunct(_)
RStripPunct(text) ==
    IF text # <<>> /\ text[Len(text)] \in {".", ",", ":", ";"}
    THEN RStripPunct(SubSeq(text, 1, Len(text) - 1))
    ELSE text

\* re.sub(r'^\d+\.\s*', '', text)
StripLeadingNumber(text) ==
    LET d == RunLen(text, 1, "d")
    IN  IF MatchesNumberDot(text)
        THEN SubSeq(text, d + 2 + RunLen(text, d + 2, "s"), Len(text))
        ELSE text

\* re.sub(r'\s+-\s*$', '', text)
StripTrailingDash(text) ==
    LET b == RunLenBack(text, Len(text), "s")
        e == Len(text) - b
        w == RunLenBack(text, e - 1, "s")
    IN  IF e >= 1 /\ text[e] = "-" /\ w >= 1 THEN SubSeq(text, 1, e - 1 - w) ELSE text

\* re.match(r'^(\d+\.\d+\s+[^0-9]+?)(?:\s+\d+\.\d+|\s+\d+$)', text): the end of
\* group 1 (0: no match)
ConcatenatedFirstEnd(text) ==
    LET d1 == RunLen(text, 1, "d")
        d2 == RunLen(text, d1 + 2, "d")
        w == RunLen(text, d1 + 1 + d2 + 1, "s")
    IN  IF /\ d1 >= 1 /\ d1 + 1 <= Len(text) /\ text[d1 + 1] = "."
           /\ d2 >= 1 /\ w >= 1
        THEN LabelEnd(text, d1 + 1 + d2 + w + 1, FALSE)
        ELSE 0

clean_heading_text(text) ==
    LET t1 == StripTrailingNumber(text)
        t2 == Join(<<" ">>, Split(t1))
        t3 == RStripPunct(t2)
        t4 == StripLeadingNumber(t3)
        t5 == StripTrailingDash(t4)
        t6 == IF ConcatenatedFirstEnd(t5) > 0
              THEN Strip(SubSeq(t5, 1, ConcatenatedFirstEnd(t5)))
              ELSE t5
        t7 == StripTrailingNumber(t6)
    IN  Strip(Join(<<" ">>, Split(t7)))

\* -------------------------------------------------------- create_feature_vector
\* Only whether a feature vector is produced (not None) reaches the outline:
\* the values go to the classifier, whose answer is not determined here.
\* (mutation) a feature vector is built for OCR blocks too
has_feature_vector_any_source(block) ==
    LET spans == SpansOf(block)
        full_text == Strip(Join(<<" ">>, [i \in 1..Len(spans) |-> Strip(spans[i].text)]))
        word_count == WordCount(full_text)
    IN  /\ spans # <<>>
        /\ full_text # <<>>
        /\ ~(word_count < 1 \/ word_count > 50)

has_feature_vector(block) ==
    LET spans == SpansOf(block)
        full_text == Strip(Join(<<" ">>, [i \in 1..Len(spans) |-> Strip(spans[i].text)]))
        word_count == WordCount(full_text)
    IN  /\ block.source # "ocr"
        /\ spans # <<>>
        /\ full_text # <<>>
        /\ ~(word_count < 1 \/ word_count > 50)

\* ------------------------------------------------- associate_content_to_headings
\* " ".join(span['text'] ...).strip(): the text a block contributes as content
content_text(block) == Strip(Join(<<" ">>, SpanTexts(block)))

\* the block lies after the position (page, y): is_after_start
is_after(block, page, y) ==
    block.page_num > page \/ (block.page_num = page /\ bbox_y0(block) > y)

\* (mutation) no window is closed by the next heading
is_before_next_unbounded(block, hs, i) == TRUE

\* the block lies before heading i + 1 (before nothing for the last heading):
\* is_before_end, end_page and end_y being float('inf') for the last heading
is_before_next(block, hs, i) ==
    \/ i + 1 > Len(hs)
    \/ block.page_num < hs[i + 1].page
    \/ (block.page_num = hs[i + 1].page /\ bbox_y0(block) < hs[i + 1].y_pos)

\* (mutation) the window is closed on the side of the next heading only:
\* every block before the next heading counts, also one above the heading
associated_content_no_start(hs, i, paragraph_blocks) ==
    LET in_window == SelectSeq(paragraph_blocks, LAMBDA b :
                         /\ is_before_next(b, hs, i)
                         /\ content_text(b) # <<>>)
    IN  Join(<<"\n">>, [k \in 1..Len(in_window) |-> content_text(in_window[k])])

\* the content the loop over paragraph_blocks builds for heading i
associated_content(hs, i, paragraph_blocks) ==
    LET in_window == SelectSeq(paragraph_blocks, LAMBDA b :
                         /\ is_after(b, hs[i].page, hs[i].y_pos)
                         /\ is_before_next(b, hs, i)
                         /\ content_text(b) # <<>>)
    IN  Join(<<"\n">>, [k \in 1..Len(in_window) |-> content_text(in_window[k])])

\* (mutation) h['content'] += c, on whatever content h carries
WithContent_appending(h, c) ==
    [f \in DOMAIN h \cup {"content"} |->
        IF f = "content" THEN (IF "content" \in DOMAIN h THEN h.content ELSE <<>>) \o c
        ELSE h[f]]

\* h with h['content'] = c
WithContent(h, c) ==
    [f \in DOMAIN h \cup {"content"} |-> IF f = "content" THEN c ELSE h[f]]

\* (mutation) a heading that gathered no content is left out of the result
associate_content_to_headings_dropping(hs, all_content_blocks) ==
    IF hs = <<>> THEN <<>>
    ELSE LET heading_positions == {<<hs[i].page, hs[i].y_pos>> : i \in 1..Len(hs)}
             paragraph_blocks == SelectSeq(all_content_blocks, LAMBDA b :
                                     <<b.page_num, bbox_y0(b)>> \notin heading_positions)
         IN  SelectSeq([i \in 1..Len(hs) |->
                           WithContent(hs[i],
                                       associated_content(hs, i, paragraph_blocks))],
                       LAMBDA h : h.content # <<>>)

associate_content_to_headings(hs, all_content_blocks) ==
    IF hs = <<>> THEN <<>>
    ELSE LET heading_positions == {<<hs[i].page, hs[i].y_pos>> : i \in 1..Len(hs)}
             paragraph_blocks == SelectSeq(all_content_blocks, LAMBDA b :
                                     <<b.page_num, bbox_y0(b)>> \notin heading_positions)
         IN  [i \in 1..Len(hs) |->
                 WithContent(hs[i],
                             associated_content(hs, i, paragraph_blocks))]

\* ------------------------------------------------------------ the documents
Span(text, size, font) == [text |-> text, size |-> size, font |-> font]
Line(spans, bbox) == [spans |-> spans, bbox |-> bbox]

\* what extract_text_blocks returns for one block of a 600 x 800 page
Block(page_num, source, bbox, lines) ==
    [type |-> 0, page_num |-> page_num, source |-> source, bbox |-> bbox,
     lines |-> lines, page_height |-> 800, page_width |-> 600]

Regular == <<"H", "e", "l", "v", "e", "t", "i", "c", "a">>
Bold == <<"H", "e", "l", "v", "e", "t", "i", "c", "a", "-", "B", "o", "l", "d">>

\* a native block of one line and one span, 20 high and 200 wide
NativeBlock(page_num, x0, y0, text, size, font) ==
    Block(page_num, "pymupdf", <<x0, y0, x0 + 200, y0 + 20>>,
          <<Line(<<Span(text, size, font)>>, <<x0, y0, x0 + 200, y0 + 20>>)>>)

\* a block of ocr_page_to_blocks: one line, one span per word ("word "), the
\* placeholder size and font
OcrBlock(page_num, bbox, words) ==
    Block(page_num, "ocr", bbox,
          <<Line([i \in 1..Len(words) |-> Span(words[i] \o <<" ">>, 12, <<"O", "C", "R", "-", "D", "e", "f", "a", "u", "l", "t">>)],
                 bbox)>>)

\* The blocks a document is made of, in the order extract_text_blocks lists
\* them: pages 0, 1 and 3 are native, page 2 is scanned.  Within a page the
\* order of the blocks is not the order of their y0.
Pool == <<
    \* page 0
    NativeBlock(0, 50, 10, <<"R", "u", "n", "n", "i", "n", "g", " ", "H", "e", "a", "d">>, 12, Regular),
    NativeBlock(0, 50, 50, <<"a", " ", "b", " ", "c", " ", "d", " ", "e", " ", "f", " ", "g", " ", "h", " ", "i", " ", "j">>, 24, Bold),
    NativeBlock(0, 50, 100, <<"1", " ", "A", "b", " ", "c", "d">>, 12, Regular),
    Block(0, "pymupdf", <<50, 150, 250, 170>>,
          <<Line(<<Span(<<"A", "b", " ">>, 12, Regular), Span(<<"c", "d", " ">>, 12, Regular),
                   Span(<<"e", "f", " ", "g", "h", ".">>, 12, Regular)>>, <<50, 150, 250, 170>>)>>),
    \* page 1
    NativeBlock(1, 50, 10, <<"R", "u", "n", "n", "i", "n", "g", " ", "H", "e", "a", "d">>, 12, Regular),
    NativeBlock(1, 50, 300, <<"1", ".", "1", ".", "1", " ", "A", "b", " ", "c", "d">>, 12, Regular),
    NativeBlock(1, 100, 300, <<"A", "b", "c", "d", "e", "f", "g", "h", "i", "j", " ", "a", "b", "c", "d", "e", "f", "g", "h", "i", "j", " ", "a", "b", "c", "d", "e", "f", "g", "h", "i", "j", ".">>, 12, Regular),
    NativeBlock(1, 50, 100, <<"a", " ", "b", " ", "c", " ", "d", " ", "e", " ", "f", " ", "g">>, 18, Bold),
    NativeBlock(1, 50, 200, <<" ", " ">>, 12, Regular),
    NativeBlock(1, 50, 400, <<"a", " ", "b", " ", "c", " ", "d", " ", "e", " ", "f", " ", "g", " ", "h">>, 12, Regular),
    NativeBlock(1, 200, 500, <<"x", " ", "y">>, 12, Regular),
    \* page 2
    OcrBlock(2, <<50, 100, 450, 300>>, <<<<"A", "b">>, <<"c", "d">>>>),
    OcrBlock(2, <<50, 400, 250, 420>>, <<<<"e", "f">>, <<"g", "h">>>>),
    OcrBlock(2, <<50, 500, 250, 520>>, <<<<"1", ".", "1">>, <<"A", "b">>, <<"c", "d">>>>),
    \* page 3
    NativeBlock(3, 50, 10, <<"R", "u", "n", "n", "i", "n", "g", " ", "H", "e", "a", "d">>, 18, Bold) >>

\* the index sets of at most n blocks of the pool
Selections(n) == {sel \in SUBSET (1..Len(Pool)) : Cardinality(sel) <= n}

\* the blocks of a selection, in pool order
RECURSIVE PickFrom(_, _)
PickFrom(i, sel) ==
    IF i > Len(Pool) THEN <<>>
    ELSE (IF i \in sel THEN <<Pool[i]>> ELSE <<>>) \o PickFrom(i + 1, sel)

Document(sel) == PickFrom(1, sel)

\* os.path.basename(pdf_path)
pdf_basename == <<"r", "e", "p", "o", "r", "t", ".", "p", "d", "f">>

\* the labels the classifier's encoder may give a block
MLLabels == {<<"Body", 0>>, HLabel(1), HLabel(2), HLabel(3)}

\* ------------------------------------------------------- the page provider
\* A document is [opens, pages]: whether fitz.open succeeds, and its pages.
\* A page is [width, height, text_blocks, blocks, ocr]:
\*   text_blocks  len(page.get_text("blocks"))
\*   blocks       page.get_text("dict")["blocks"]: dicts with type (0 text,
\*                1 image), bbox and, for text, lines
\*   ocr          [fails, words]: whether rendering or Tesseract raises, and
\*                the rows of image_to_data, each
\*                [text, block_num, line_num, left, top, width, height]
\* Fields the extraction never reads are left out.

\* where a specification starts from the block list, no document is read
NoDocument == [opens |-> FALSE, pages |-> <<>>]

\* (mutation) a page is scanned only when it has no text block at all
is_scanned_page_no_text(page) == page.text_blocks < 1

\* len(page.get_text("blocks")) < 3
is_scanned_page(page) == page.text_blocks < 3

word_bbox(w) == <<w.left, w.top, w.left + w.width, w.top + w.height>>

Min2(a, b) == IF a < b THEN a ELSE b

\* the line bbox expanded to encompass the word
expanded_bbox(bbox, wb) ==
    <<Min2(bbox[1], wb[1]), Min2(bbox[2], wb[2]), Max2(bbox[3], wb[3]), Max2(bbox[4], wb[4])>>

OcrFont == <<"O", "C", "R", "-", "D", "e", "f", "a", "u", "l", "t">>

\* one word added to lines_in_block, which keeps its keys in insertion order
add_ocr_word(lines_in_block, w) ==
    LET key == <<w.block_num, w.line_num>>
        span == Span(Strip(w.text) \o <<" ">>, 12, OcrFont)
    IN  IF \E k \in 1..Len(lines_in_block) : lines_in_block[k].key = key
        THEN [k \in 1..Len(lines_in_block) |->
                 IF lines_in_block[k].key = key
                 THEN [key |-> key,
                       spans |-> Append(lines_in_block[k].spans, span),
                       bbox |-> expanded_bbox(lines_in_block[k].bbox, word_bbox(w))]
                 ELSE lines_in_block[k]]
        ELSE Append(lines_in_block, [key |-> key, spans |-> <<span>>, bbox |-> word_bbox(w)])

\* the loop over the rows of ocr_data: rows without text are skipped
RECURSIVE group_ocr_words(_, _, _)
group_ocr_words(words, i, lines_in_block) ==
    IF i > Len(words) THEN lines_in_block
    ELSE group_ocr_words(words, i + 1,
             IF Strip(words[i].text) = <<>> THEN lines_in_block
             ELSE add_ocr_word(lines_in_block, words[i]))

\* ocr_page_to_blocks: one block per (block_num, line_num); [] when anything
\* raises or when there is no OCR data
ocr_page_to_blocks(page, page_num) ==
    IF page.ocr.fails \/ page.ocr.words = <<>> THEN <<>>
    ELSE LET lines_in_block == group_ocr_words(page.ocr.words, 1, <<>>)
         IN  [k \in 1..Len(lines_in_block) |->
                 [type |-> 0, bbox |-> lines_in_block[k].bbox, page_num |-> page_num,
                  source |-> "ocr",
                  lines |-> <<Line(lines_in_block[k].spans, lines_in_block[k].bbox)>>]]

\* block[key] = value
WithKey(block, key, value) ==
    [f \in DOMAIN block \cup {key} |-> IF f = key THEN value ELSE block[f]]

\* the page dimensions written into a block
with_page_size(block, page) ==
    WithKey(WithKey(block, "page_height", page.height), "page_width", page.width)

\* (mutation) only the text blocks that hold a line with non-empty text are kept
native_blocks_with_text(page, page_num) ==
    LET kept == SelectSeq(page.blocks, LAMBDA b :
                    /\ b.type = 0 /\ "lines" \in DOMAIN b
                    /\ \E i \in 1..Len(b.lines) :
                          Strip(Concat([k \in 1..Len(b.lines[i].spans) |->
                                           b.lines[i].spans[k].text])) # <<>>)
    IN  [k \in 1..Len(kept) |->
            with_page_size(WithKey(WithKey(kept[k], "page_num", page_num),
                                   "source", "pymupdf"), page)]

\* the else branch of the page loop: the text blocks of the page that have lines
native_blocks(page, page_num) ==
    LET kept == SelectSeq(page.blocks, LAMBDA b : b.type = 0 /\ "lines" \in DOMAIN b)
    IN  [k \in 1..Len(kept) |->
            with_page_size(WithKey(WithKey(kept[k], "page_num", page_num),
                                   "source", "pymupdf"), page)]

\* the if branch of the page loop: the OCR blocks of the page
scanned_blocks(page, page_num) ==
    LET ocr_blocks == ocr_page_to_blocks(page, page_num)
    IN  [k \in 1..Len(ocr_blocks) |-> with_page_size(ocr_blocks[k], page)]

\* one round of the page loop
page_blocks(page, page_num) ==
    IF is_scanned_page(page) THEN scanned_blocks(page, page_num)
    ELSE native_blocks(page, page_num)

\* (mutation) a failing OCR ends the page loop
RECURSIVE blocks_until_ocr_failure(_, _)
blocks_until_ocr_failure(pages, page_num) ==
    IF page_num >= Len(pages) THEN <<>>
    ELSE IF is_scanned_page(pages[page_num + 1]) /\ pages[page_num + 1].ocr.fails THEN <<>>
    ELSE page_blocks(pages[page_num + 1], page_num)
             \o blocks_until_ocr_failure(pages, page_num + 1)

\* for page_num, page in enumerate(doc)
RECURSIVE blocks_of_pages(_, _)
blocks_of_pages(pages, page_num) ==
    IF page_num >= Len(pages) THEN <<>>
    ELSE page_blocks(pages[page_num + 1], page_num) \o blocks_of_pages(pages, page_num + 1)

\* (mutation) the pages are read although the document did not open
extract_text_blocks_unopened(document) == blocks_of_pages(document.pages, 0)

\* extract_text_blocks: [] when the document does not open
extract_text_blocks(document) ==
    IF ~document.opens THEN <<>> ELSE blocks_of_pages(document.pages, 0)

\* ---------------------------------------------------------------- raw pages
RawText(x0, y0, text) ==
    [type |-> 0, bbox |-> <<x0, y0, x0 + 200, y0 + 20>>,
     lines |-> <<Line(<<Span(text, 12, Regular)>>, <<x0, y0, x0 + 200, y0 + 20>>)>>]

RawImage == [type |-> 1, bbox |-> <<50, 500, 550, 700>>]

\* a text block that lost its bbox
RawTextNoBbox(text) == [type |-> 0, lines |-> <<Line(<<Span(text, 12, Regular)>>, <<50, 300, 250, 320>>)>>]

Word(text, block_num, line_num, left, top) ==
    [text |-> text, block_num |-> block_num, line_num |-> line_num,
     left |-> left, top |-> top, width |-> 100, height |-> 20]

NoOcr == [fails |-> FALSE, words |-> <<>>]

Page(width, height, text_blocks, blocks, ocr) ==
    [width |-> width, height |-> height, text_blocks |-> text_blocks, blocks |-> blocks,
     ocr |-> ocr]

\* a native page: a numbered heading, a blank block, a paragraph, a picture
PageNative ==
    Page(600, 800, 3, << RawText(50, 100, <<"1", " ", "A", "b", " ", "c", "d">>),
               RawText(50, 200, <<" ", " ">>),
               RawImage,
               RawText(50, 400, <<"A", "b", " ", "c", "d", " ", "e", "f", " ", "g", "h", " ", "a", "b", " ", "c", "d", " ", "e", "f", " ", "g", "h", " ", "a", "b", " ", "c", "d", ".">>) >>,
         NoOcr)

\* a scanned page with two text blocks of its own; Tesseract reads two lines
\* and an empty row
PageScanned ==
    Page(500, 700, 2,
         << RawText(50, 100, <<"A", "b", " ", "c", "d">>),
            RawText(50, 200, <<"e", "f", " ", "g", "h">>) >>,
         [fails |-> FALSE,
          words |-> << Word(<<"1", ".", "1">>, 1, 1, 200, 400),
                       Word(<<" ">>, 1, 2, 0, 0),
                       Word(<<"e", "f">>, 2, 1, 200, 900),
                       Word(<<"A", "b">>, 1, 1, 350, 395),
                       Word(<<"c", "d">>, 1, 1, 500, 400) >>])

\* a scanned page with one text block of its own, on which the OCR raises
PageOcrFails ==
    Page(600, 800, 1, << RawText(50, 100, <<"A", "b", " ", "c", "d">>) >>,
         [fails |-> TRUE, words |-> <<>>])

\* a page without anything to read
PageBlank == Page(600, 800, 0, <<>>, NoOcr)

\* a native page on which one text block has no bbox.  The malformed blocks of
\* the model have a short text, so that the table test of step 3 reads their
\* bbox.
PageMalformed ==
    Page(600, 800, 3, << RawText(50, 100, <<"1", " ", "A", "b", " ", "c", "d">>),
               RawTextNoBbox(<<"A", "b", " ", "c", "d">>),
               RawText(50, 400, <<"e", "f", " ", "g", "h">>) >>,
         NoOcr)

RawPages == {PageNative, PageScanned, PageOcrFails, PageBlank, PageMalformed}

RECURSIVE PageSeqs(_)
PageSeqs(n) ==
    IF n = 0 THEN {<<>>}
    ELSE PageSeqs(n - 1) \cup {Append(q, pg) : q \in {x \in PageSeqs(n - 1) : Len(x) = n - 1},
                                               pg \in RawPages}

RawDocuments == {[opens |-> o, pages |-> ps] : o \in BOOLEAN, ps \in PageSeqs(MaxPages)}

\* ------------------------------------------- validator on its own inputs
VHeading(n) == [level |-> HLabel(n), text |-> <<"a">>, page |-> 0, content |-> <<>>]

RECURSIVE LevelSeqs(_)
LevelSeqs(n) ==
    IF n = 0 THEN {<<>>}
    ELSE LET shorter == LevelSeqs(n - 1)
         IN  shorter \cup {Append(s, VHeading(l)) :
                              s \in {t \in shorter : Len(t) = n - 1}, l \in 1..MaxLevel}

PIdle ==
    /\ pc = "idle"
    /\ all_blocks = <<>>
    /\ num_pages = 0
    /\ doc_stats = [median_size |-> 12]
    /\ title = <<>>
    /\ filtered_blocks = <<>>
    /\ headings = <<>>
    /\ blocks_for_ml = <<>>
    /\ predictor_loaded = FALSE
    /\ result = [title |-> <<>>, outline |-> <<>>]
    /\ pdf = NoDocument

VIdle ==
    /\ vpc = "idle"
    /\ vinput = <<>>
    /\ vheadings = <<>>
    /\ vonce = <<>>

CIdle ==
    /\ cpc = "idle"
    /\ sentences = <<>>
    /\ chunk_size = 1
    /\ chunk_overlap = 0
    /\ start = 0
    /\ chunks = <<>>

Threads == 1..MaxThreads
\* index_lock is the set of the threads that hold it
NoThread == {}

\* BM25_INDEX = None, and BM25Okapi(corpus)
NoBM25 == [built |-> FALSE, corpus |-> <<>>]
BM25Okapi(corpus) == [built |-> TRUE, corpus |-> corpus]

\* the globals of search.py as load_search_engine initializes new indices,
\* and nothing on disk
NewIndices ==
    /\ INDEX = <<>>
    /\ BM25_INDEX = NoBM25
    /\ TOKENIZED_CORPUS = <<>>
    /\ METADATA = <<>>
    /\ index_lock = NoThread
    /\ disk = [index |-> <<>>, metadata |-> <<>>, bm25 |-> <<>>]

IIdle ==
    /\ tpc = [t \in Threads |-> "idle"]
    /\ calls = [t \in Threads |-> [chunks |-> <<>>, metadatas |-> <<>>]]
    /\ embeddings = [t \in Threads |-> <<>>]
    /\ new_tokenized = [t \in Threads |-> <<>>]
    /\ NewIndices

VInit ==
    /\ vpc = "input"
    /\ vinput \in LevelSeqs(MaxHeadings)
    /\ vheadings = vinput
    /\ vonce = <<>>
    /\ PIdle
    /\ CIdle
    /\ IIdle

\* final_outline = validate_hierarchy(headings_with_content)
VValidate ==
    /\ vpc = "input"
    /\ vheadings' = validate_hierarchy(vheadings)
    /\ vonce' = vheadings'
    /\ vpc' = "once"
    /\ UNCHANGED <<vinput, pvars, cvars, ivars>>

\* validate_hierarchy run again on the list it returned
VRevalidate ==
    /\ vpc = "once"
    /\ vheadings' = validate_hierarchy(vheadings)
    /\ vpc' = "twice"
    /\ UNCHANGED <<vinput, vonce, pvars, cvars, ivars>>

VNext == VValidate \/ VRevalidate

SpecValidate == VInit /\ [][VNext]_vars

\* -------------------------------------------------- extract_structure_from_pdf
\* max(b.get('page_num', 0) for b in all_blocks) + 1
\* (mutation) the pages that hold a block are counted
NumPages_counted(blocks) == Cardinality({blocks[i].page_num : i \in 1..Len(blocks)})

NumPages(blocks) == MaxSeq([i \in 1..Len(blocks) |-> blocks[i].page_num]) + 1

\* --- KeyError: a block without 'bbox' read by block['bbox'] in steps 2 and 3
has_bbox(block) == "bbox" \in DOMAIN block

lacks_bbox(blocks) == \E i \in 1..Len(blocks) : ~has_bbox(blocks[i])

\* both special-case lines were found, and find_title returns before line 271
takes_rfp_path(texts) ==
    /\ \E i \in 1..Len(texts) : Contains(Lower(texts[i]), <<"r", "f", "p">>)
    /\ \E i \in 1..Len(texts) :
          Contains(Lower(texts[i]), <<"t", "o", " ", "p", "r", "e", "s", "e", "n", "t", " ", "a", " ", "p", "r", "o", "p", "o", "s", "a", "l">>)

\* find_title reaches `if block['bbox'][1] > 400` for every first-page block
first_page_raises(first_page_blocks) ==
    /\ first_page_blocks # <<>>
    /\ ~takes_rfp_path(page_line_texts(LinesOf(first_page_blocks)))
    /\ MaxSeq(NativeSizes(first_page_blocks)) # 0
    /\ lacks_bbox(first_page_blocks)

find_title_raises(blocks) ==
    first_page_raises(SelectSeq(blocks, LAMBDA b : b.page_num = 0 /\ b.type = 0))

\* the second loop of filter_headers_footers reads y0 = block['bbox'][1] of
\* every block
filter_headers_footers_raises(blocks, npages) == npages >= 3 /\ lacks_bbox(blocks)

\* is_table_block reads block['bbox'] of a short native block that is no form
\* field, and other_block['bbox'][1] of the other native blocks when the
\* block is not indented
is_table_block_raises(block, blocks) ==
    /\ block.source # "ocr"
    /\ ~MatchesFormFieldLabel(block_text(block))
    /\ ~(/\ \E k \in 1..Len(form_keywords) :
               Contains(Lower(block_text(block)), form_keywords[k])
         /\ MatchesNumberDot(block_text(block)))
    /\ Len(block_text(block)) < 30
    /\ IF ~has_bbox(block) THEN TRUE
       ELSE /\ ~(bbox_x0(block) * 10 > block.page_width * 2)
            /\ \E i \in 1..Len(blocks) :
                  /\ blocks[i] # block
                  /\ blocks[i].source # "ocr"
                  /\ ~has_bbox(blocks[i])

\* steps 2 and 3 end in a KeyError
prepare_raises(blocks) ==
    \/ find_title_raises(blocks)
    \/ filter_headers_footers_raises(blocks, NumPages(blocks))
    \/ \E i \in 1..Len(blocks) : is_table_block_raises(blocks[i], blocks)

\* the heading dict both classification steps build for block i of blocks,
\* or <<>> when its cleaned text is empty.  src is not a key of the dict: it
\* records which block the heading was made from.
heading_of(blocks, i, level) ==
    LET text == clean_heading_text(block_text(blocks[i]))
    IN  IF text = <<>> THEN <<>>
        ELSE <<[level |-> level, text |-> text, page |-> blocks[i].page_num,
                y_pos |-> bbox_y0(blocks[i]), src |-> i]>>

\* (mutation) the styled rule is tried first
heuristic_level_styled_first(block, blocks, stats) ==
    IF classify_styled_heading(block, stats, blocks) # NoLevel
    THEN classify_styled_heading(block, stats, blocks)
    ELSE classify_numbered_heading(block, blocks, stats)

\* the rule-based level of a block: the numbered rule, then the styled rule
heuristic_level(block, blocks, stats) ==
    IF classify_numbered_heading(block, blocks, stats) # NoLevel
    THEN classify_numbered_heading(block, blocks, stats)
    ELSE classify_styled_heading(block, stats, blocks)

\* the block is skipped by the classification loops
is_skipped(block, blocks, stats, ttl) ==
    is_table_block(block, blocks, stats) \/ is_title_block(block, ttl)

\* the loop over filtered_blocks: the headings found by the two rules
RECURSIVE heuristic_headings(_, _, _, _)
heuristic_headings(blocks, i, stats, ttl) ==
    IF i > Len(blocks) THEN <<>>
    ELSE (IF is_skipped(blocks[i], blocks, stats, ttl) THEN <<>>
          ELSE IF heuristic_level(blocks[i], blocks, stats) # NoLevel
               THEN heading_of(blocks, i, heuristic_level(blocks[i], blocks, stats))
               ELSE <<>>)
         \o heuristic_headings(blocks, i + 1, stats, ttl)

\* the same loop: the blocks no rule matched
unmatched_blocks(blocks, stats, ttl) ==
    SelectSeq([i \in 1..Len(blocks) |-> i], LAMBDA i :
        /\ ~is_skipped(blocks[i], blocks, stats, ttl)
        /\ heuristic_level(blocks[i], blocks, stats) = NoLevel)

\* valid_blocks: the blocks of blocks_for_ml a feature vector is built for
valid_blocks(for_ml, blocks, stats, ttl) ==
    SelectSeq(for_ml, LAMBDA i :
        /\ ~is_skipped(blocks[i], blocks, stats, ttl)
        /\ has_feature_vector(blocks[i]))

\* (mutation) every block with a feature vector becomes a heading, whatever
\* its label
RECURSIVE ml_headings_any_label(_, _, _, _)
ml_headings_any_label(valid, predictions, k, blocks) ==
    IF k > Len(valid) THEN <<>>
    ELSE heading_of(blocks, valid[k],
                    IF predictions[k] = NoLevel THEN HLabel(1) ELSE predictions[k])
         \o ml_headings_any_label(valid, predictions, k + 1, blocks)

\* the headings added for the predictions of the classifier
RECURSIVE ml_headings(_, _, _, _)
ml_headings(valid, predictions, k, blocks) ==
    IF k > Len(valid) THEN <<>>
    ELSE (IF predictions[k] \in {HLabel(1), HLabel(2), HLabel(3)}
          THEN heading_of(blocks, valid[k], predictions[k])
          ELSE <<>>)
         \o ml_headings(valid, predictions, k + 1, blocks)

\* (mutation) the sort is left out
sort_headings_missing(hs) == hs

\* headings.sort(key=lambda x: (x['page'], x['y_pos']))
sort_headings(hs) == SortByKeys(hs, [i \in 1..Len(hs) |-> <<hs[i].page, hs[i].y_pos>>])

\* del h['y_pos']; h['text'] = clean_heading_text(h['text'])
strip_heading(h) ==
    [f \in DOMAIN h \ {"y_pos"} |-> IF f = "text" THEN clean_heading_text(h.text) ELSE h[f]]

Init ==
    /\ pc = "start"
    /\ \E sel \in Selections(MaxBlocks) : all_blocks = Document(sel)
    /\ num_pages = 0
    /\ doc_stats = [median_size |-> 12]
    /\ title = <<>>
    /\ filtered_blocks = <<>>
    /\ headings = <<>>
    /\ blocks_for_ml = <<>>
    /\ predictor_loaded = FALSE
    /\ result = [title |-> <<>>, outline |-> <<>>]
    /\ pdf = NoDocument
    /\ VIdle
    /\ CIdle
    /\ IIdle

\* no text block: return {"title": "", "outline": []}
ReturnEmpty ==
    /\ pc = "start"
    /\ all_blocks = <<>>
    /\ result' = [title |-> <<>>, outline |-> <<>>]
    /\ pc' = "done"
    /\ UNCHANGED <<all_blocks, num_pages, doc_stats, title, filtered_blocks, headings,
                   blocks_for_ml, predictor_loaded, vvars, pdf, cvars, ivars>>

\* steps 1 to 3: page count, statistics, title, filtering
Prepare ==
    /\ pc = "start"
    /\ all_blocks # <<>>
    /\ ~prepare_raises(all_blocks)
    /\ num_pages' = NumPages(all_blocks)
    /\ doc_stats' = get_document_stats(all_blocks)
    /\ title' = (LET t == find_title(all_blocks)
                 IN  IF t = <<>> \/ Lower(t) = Lower(pdf_basename) THEN <<>> ELSE t)
    /\ filtered_blocks' = remove_headers_footers_tables(all_blocks, num_pages', doc_stats')
    /\ pc' = "classify"
    /\ UNCHANGED <<all_blocks, headings, blocks_for_ml, predictor_loaded, result, vvars, pdf, cvars, ivars>>

\* step 4: the rule-based classification of every filtered block
Classify ==
    /\ pc = "classify"
    /\ headings' = heuristic_headings(filtered_blocks, 1, doc_stats, title)
    /\ blocks_for_ml' = unmatched_blocks(filtered_blocks, doc_stats, title)
    /\ pc' = "ml"
    /\ UNCHANGED <<all_blocks, num_pages, doc_stats, title, filtered_blocks,
                   predictor_loaded, result, vvars, pdf, cvars, ivars>>

\* predictor.predict(feature_vectors): one label per feature vector.  Without
\* the model or the encoder every label is None; a loaded classifier may
\* answer any label for any block.
predict(loaded, n) ==
    IF loaded THEN [1..n -> MLLabels] ELSE {[k \in 1..n |-> NoLevel]}

\* the classifier's artifacts load or not, and its predictions for the valid
\* blocks add their headings
predict_headings(valid) ==
    \E loaded \in BOOLEAN :
        /\ blocks_for_ml = <<>> => ~loaded
        /\ predictor_loaded' = loaded
        /\ \E predictions \in predict(loaded, Len(valid)) :
               headings' = headings \o ml_headings(valid, predictions, 1, filtered_blocks)

\* step 5: the classifier, on the blocks no rule matched
MLFallback ==
    /\ pc = "ml"
    /\ predict_headings(valid_blocks(blocks_for_ml, filtered_blocks, doc_stats, title))
    /\ pc' = "sort"
    /\ UNCHANGED <<all_blocks, num_pages, doc_stats, title, filtered_blocks,
                   blocks_for_ml, result, vvars, pdf, cvars, ivars>>

\* step 6: headings.sort(...)
Sort ==
    /\ pc = "sort"
    /\ headings' = sort_headings(headings)
    /\ pc' = "associate"
    /\ UNCHANGED <<all_blocks, num_pages, doc_stats, title, filtered_blocks,
                   blocks_for_ml, predictor_loaded, result, vvars, pdf, cvars, ivars>>

\* headings_with_content = associate_content_to_headings(headings, filtered_blocks)
Associate ==
    /\ pc = "associate"
    /\ headings' = associate_content_to_headings(headings, filtered_blocks)
    /\ pc' = "strip"
    /\ UNCHANGED <<all_blocks, num_pages, doc_stats, title, filtered_blocks,
                   blocks_for_ml, predictor_loaded, result, vvars, pdf, cvars, ivars>>

\* the loop that deletes y_pos and cleans the text once more
StripKeys ==
    /\ pc = "strip"
    /\ headings' = [i \in 1..Len(headings) |-> strip_heading(headings[i])]
    /\ pc' = "validate"
    /\ UNCHANGED <<all_blocks, num_pages, doc_stats, title, filtered_blocks,
                   blocks_for_ml, predictor_loaded, result, vvars, pdf, cvars, ivars>>

\* final_outline = validate_hierarchy(headings_with_content); return
Validate ==
    /\ pc = "validate"
    /\ headings' = validate_hierarchy(headings)
    /\ result' = [title |-> title, outline |-> headings']
    /\ pc' = "done"
    /\ UNCHANGED <<all_blocks, num_pages, doc_stats, title, filtered_blocks,
                   blocks_for_ml, predictor_loaded, vvars, pdf, cvars, ivars>>

Next ==
    \/ ReturnEmpty
    \/ Prepare
    \/ Classify
    \/ MLFallback
    \/ Sort
    \/ Associate
    \/ StripKeys
    \/ Validate

Spec == Init /\ [][Next]_vars

\* ------------------------------------------ the associator on its own output
\* associate_content_to_headings called once more on the list it returned,
\* which still carries page and y_pos, with the same filtered_blocks
Reassociate ==
    /\ pc = "strip"
    /\ headings' = associate_content_to_headings(headings, filtered_blocks)
    /\ pc' = "reassociated"
    /\ UNCHANGED <<all_blocks, num_pages, doc_stats, title, filtered_blocks,
                   blocks_for_ml, predictor_loaded, result, vvars, pdf, cvars, ivars>>

NextAssociate ==
    \/ ReturnEmpty
    \/ Prepare
    \/ Classify
    \/ MLFallback
    \/ Sort
    \/ Associate
    \/ Reassociate

SpecAssociate == Init /\ [][NextAssociate]_vars

\* ------------------------------------------- the rules on one block at a time
\* A document of two pages built around one block: page 0 holds two indented
\* page marks, which fix the median size, give no title and are removed as
\* tabular; page 1 holds the block the rules are applied to.
PageMark(y0, size) == NativeBlock(0, 200, y0, <<"p", "a", "g", "e">>, size, Regular)

RuleTexts == {
    <<"A", "b", " ", "C", "d">>,
    <<"A", "B", " ", "C", "D">>,
    <<"a", "b", " ", "c", "d">>,
    <<"A", "b", " ", "C", "d", ".">>,
    <<"1", " ", "A", "b", " ", "c", "d">>,
    <<"1", ".", "1", " ", "A", "b", " ", "c", "d">>,
    <<"1", ".", "1", ".", "1", " ", "A", "b", " ", "c", "d">>,
    <<"1", ".", "1", ".", "1", ".", "1", " ", "A", "b", " ", "c", "d">>,
    <<"1", ".", "2", ".", " ", "a", "b", " ", "c", "d">>,
    <<"1", " ", "A", "b">>,
    <<"1", " ", "A", "b", " ", "c", "d", " ", "2">>,
    <<"1", " ", "A", "b", " ", "2", " ", "c", "d">>,
    <<"1", " ", "A", "b", "c", "d", "e", "f", "g", "h", "i", "j", "k", "l", "m", "n", "o">> }

\* median and size: the sizes around 1.15, 1.2, 1.25 and 1.4 times a median
\* of 20, around 1.4 times a median of 45, around 1.15 times a median of 100
RuleSizes ==
    {<<20, size>> : size \in {22, 23, 24, 25, 26, 28, 29}}
        \cup {<<45, size>> : size \in {62, 63, 64}}
        \cup {<<100, size>> : size \in {114, 115, 116}}

RuleDocuments ==
    {<<PageMark(600, ms[1]), PageMark(700, ms[1]), NativeBlock(1, 50, 100, text, ms[2], font)>> :
        text \in RuleTexts, ms \in RuleSizes, font \in {Regular, Bold}}

InitRules ==
    /\ pc = "start"
    /\ all_blocks \in RuleDocuments
    /\ num_pages = 0
    /\ doc_stats = [median_size |-> 12]
    /\ title = <<>>
    /\ filtered_blocks = <<>>
    /\ headings = <<>>
    /\ blocks_for_ml = <<>>
    /\ predictor_loaded = FALSE
    /\ result = [title |-> <<>>, outline |-> <<>>]
    /\ pdf = NoDocument
    /\ VIdle
    /\ CIdle
    /\ IIdle

\* steps 1 to 5 of extract_structure_from_pdf
NextRules ==
    \/ Prepare
    \/ Classify
    \/ MLFallback

SpecRules == InitRules /\ [][NextRules]_vars

\* --------------------------------------------------- first pages and titles
\* Documents of one or two pages; each page is native or scanned as a whole,
\* as extract_text_blocks builds it.  One scanned first page reads "RFP to
\* present a proposal".
NativeFirstPages == {
    <<NativeBlock(0, 50, 50, <<"A", "b", " ", "C", "d">>, 24, Bold)>>,
    <<NativeBlock(0, 50, 100, <<"e", "f", " ", "g", "h">>, 12, Regular)>>,
    <<NativeBlock(0, 50, 50, <<"A", "b", " ", "C", "d">>, 24, Bold),
      NativeBlock(0, 50, 100, <<"e", "f", " ", "g", "h">>, 12, Regular)>>,
    <<NativeBlock(0, 50, 100, <<"e", "f", " ", "g", "h">>, 12, Regular),
      NativeBlock(0, 50, 50, <<"A", "b", " ", "C", "d">>, 24, Bold)>>,
    <<NativeBlock(0, 50, 450, <<"L", "o", "w", " ", "D", "o", "w", "n">>, 24, Bold)>> }

ScannedFirstPages == {
    <<OcrBlock(0, <<50, 50, 250, 70>>, <<<<"S", "c", "a", "n">>, <<"t", "e", "x", "t">>>>)>>,
    <<OcrBlock(0, <<50, 100, 450, 120>>,
               <<<<"R", "F", "P">>, <<"t", "o">>, <<"p", "r", "e", "s", "e", "n", "t">>,
                 <<"a">>, <<"p", "r", "o", "p", "o", "s", "a", "l">>>>)>>,
    <<OcrBlock(0, <<50, 50, 250, 70>>, <<<<"S", "c", "a", "n">>, <<"t", "e", "x", "t">>>>),
      OcrBlock(0, <<50, 100, 450, 120>>,
               <<<<"R", "F", "P">>, <<"t", "o">>, <<"p", "r", "e", "s", "e", "n", "t">>,
                 <<"a">>, <<"p", "r", "o", "p", "o", "s", "a", "l">>>>)>> }

SecondPages == {
    <<>>,
    <<NativeBlock(1, 50, 50, <<"O", "t", "h", "e", "r", " ", "P", "a", "g", "e">>, 24, Bold)>>,
    <<NativeBlock(1, 50, 50, <<"O", "t", "h", "e", "r", " ", "P", "a", "g", "e">>, 24, Bold),
      NativeBlock(1, 50, 100, <<"i", "j", " ", "k", "l">>, 12, Regular)>>,
    <<OcrBlock(1, <<50, 50, 250, 70>>, <<<<"m", "o", "r", "e">>, <<"s", "c", "a", "n">>>>)>> }

TitleDocuments ==
    {first \o second : first \in NativeFirstPages \cup ScannedFirstPages \cup {<<>>},
                       second \in SecondPages} \ {<<>>}

InitTitle ==
    /\ pc = "start"
    /\ all_blocks \in TitleDocuments
    /\ num_pages = 0
    /\ doc_stats = [median_size |-> 12]
    /\ title = <<>>
    /\ filtered_blocks = <<>>
    /\ headings = <<>>
    /\ blocks_for_ml = <<>>
    /\ predictor_loaded = FALSE
    /\ result = [title |-> <<>>, outline |-> <<>>]
    /\ pdf = NoDocument
    /\ VIdle
    /\ CIdle
    /\ IIdle

\* extract_structure_from_pdf on a document that has blocks
NextTitle ==
    \/ Prepare
    \/ Classify
    \/ MLFallback
    \/ Sort
    \/ Associate
    \/ StripKeys
    \/ Validate

SpecTitle == InitTitle /\ [][NextTitle]_vars

\* ------------------------------------------------ from the document onwards
InitExtract ==
    /\ pc = "open"
    /\ pdf \in RawDocuments
    /\ all_blocks = <<>>
    /\ num_pages = 0
    /\ doc_stats = [median_size |-> 12]
    /\ title = <<>>
    /\ filtered_blocks = <<>>
    /\ headings = <<>>
    /\ blocks_for_ml = <<>>
    /\ predictor_loaded = FALSE
    /\ result = [title |-> <<>>, outline |-> <<>>]
    /\ VIdle
    /\ CIdle
    /\ IIdle

\* all_blocks = extract_text_blocks(pdf_path)
ExtractBlocks ==
    /\ pc = "open"
    /\ all_blocks' = extract_text_blocks(pdf)
    /\ pc' = "start"
    /\ UNCHANGED <<num_pages, doc_stats, title, filtered_blocks, headings,
                   blocks_for_ml, predictor_loaded, result, vvars, pdf, cvars, ivars>>

\* a KeyError raised in step 2 or 3 leaves extract_structure_from_pdf, which
\* has no handler
PrepareRaises ==
    /\ pc = "start"
    /\ all_blocks # <<>>
    /\ prepare_raises(all_blocks)
    /\ pc' = "raised"
    /\ UNCHANGED <<all_blocks, num_pages, doc_stats, title, filtered_blocks, headings,
                   blocks_for_ml, predictor_loaded, result, vvars, pdf, cvars, ivars>>

NextExtract ==
    \/ ExtractBlocks
    \/ ReturnEmpty
    \/ Prepare
    \/ PrepareRaises
    \/ Classify
    \/ MLFallback
    \/ Sort
    \/ Associate
    \/ StripKeys
    \/ Validate

SpecExtract == InitExtract /\ [][NextExtract]_vars

\* ---------------------------------------------------------------- chunk_text
\* The text is cut into sentences by sent_tokenize; a sentence is a text
\* that ends in a full stop.
SentenceTexts == {<<"A", "b", ".">>, <<"C", ".">>}

RECURSIVE SentenceLists(_)
SentenceLists(n) ==
    IF n = 0 THEN {<<>>}
    ELSE SentenceLists(n - 1)
            \cup {Append(q, t) : q \in {r \in SentenceLists(n - 1) : Len(r) = n - 1},
                                 t \in SentenceTexts}

\* (mutation) without the "else 1": the window stays where it is when the
\* overlap is not smaller than the chunk size
advance_or_stay(size, overlap) == IF size - overlap > 0 THEN size - overlap ELSE 0

\* step if step > 0 else 1, step = chunk_size - chunk_overlap
advance(size, overlap) == IF size - overlap > 0 THEN size - overlap ELSE 1

\* " ".join(sentences[from:to]), with the slice it is cut from (from and to
\* as Python counts them: sentences from + 1 to to of the sequence)
chunk_of(from, to) ==
    [text |-> Join(<<" ">>, SubSeq(sentences, from + 1, Min2(to, Len(sentences)))),
     from |-> from,
     to |-> Min2(to, Len(sentences))]

InitChunk ==
    /\ cpc = "loop"
    /\ sentences \in SentenceLists(MaxSentences)
    /\ chunk_size \in 1..MaxChunkSize
    /\ chunk_overlap \in 0..MaxChunkOverlap
    /\ start = 0
    /\ chunks = <<>>
    /\ PIdle
    /\ VIdle
    /\ IIdle

\* one pass through the body of the while loop; no pass is made with more
\* chunks than MaxSentences
ChunkPass ==
    /\ cpc = "loop"
    /\ start < Len(sentences)
    /\ Len(chunks) <= MaxSentences
    /\ chunks' = Append(chunks, chunk_of(start, start + chunk_size))
    /\ IF start + chunk_size >= Len(sentences)
       THEN cpc' = "done" /\ start' = start
       ELSE cpc' = "loop" /\ start' = start + advance(chunk_size, chunk_overlap)
    /\ UNCHANGED <<sentences, chunk_size, chunk_overlap, vvars, pvars, ivars>>

\* the while test fails: return chunks
ChunkReturn ==
    /\ cpc = "loop"
    /\ ~(start < Len(sentences))
    /\ cpc' = "done"
    /\ UNCHANGED <<sentences, chunk_size, chunk_overlap, start, chunks, vvars, pvars, ivars>>

NextChunk == ChunkPass \/ ChunkReturn

SpecChunk == InitChunk /\ [][NextChunk]_vars

\* chunk_text runs in one thread that is not held up
SpecChunkFair == SpecChunk /\ WF_vars(NextChunk)

\* ------------------------------------------------------- add_chunks_to_index
\* the two chunks thread t may hand over; the digit names the thread
ChunkTexts(t) ==
    <<<<"P", "a", "r", "t", " ", "A", <<"0", "1", "2", "3", "4", "5", "6", "7", "8", "9">>[t + 1]>>,
      <<"P", "a", "r", "t", " ", "B", <<"0", "1", "2", "3", "4", "5", "6", "7", "8", "9">>[t + 1]>>>>

\* the metadata record process_and_index_pdf builds for a chunk (the fields
\* that tell records apart)
metadata_of(t, chunk) == [doc_name |-> t, chunk_text |-> chunk]

\* the calls thread t may make: no chunk, one chunk, two chunks in either
\* order, each with as many metadata records as chunks
CallsOf(t) ==
    {[chunks |-> q, metadatas |-> [i \in 1..Len(q) |-> metadata_of(t, q[i])]] :
        q \in {<<>>, <<ChunkTexts(t)[1]>>, <<ChunkTexts(t)[1], ChunkTexts(t)[2]>>,
               <<ChunkTexts(t)[2], ChunkTexts(t)[1]>>}}

\* model.encode(chunks): one vector per chunk, a function of the chunk alone
encode(q) == [i \in 1..Len(q) |-> [vector_of |-> q[i]]]

\* text.lower().split()
tokenize_text(text) == Split(Lower(text))

\* (mutation) the lock is taken whoever holds it
lock_is_free_always(holder) == TRUE

\* "with index_lock" goes on when no thread holds the lock
lock_is_free(holder) == holder = NoThread

InitIndex ==
    /\ tpc = [t \in Threads |-> "call"]
    /\ calls \in [Threads -> UNION {CallsOf(t) : t \in Threads}]
    /\ \A t \in Threads : calls[t] \in CallsOf(t)
    /\ embeddings = [t \in Threads |-> <<>>]
    /\ new_tokenized = [t \in Threads |-> <<>>]
    /\ NewIndices
    /\ PIdle
    /\ VIdle
    /\ CIdle

\* if not chunks: return
AddNothing(t) ==
    /\ tpc[t] = "call"
    /\ calls[t].chunks = <<>>
    /\ tpc' = [tpc EXCEPT ![t] = "returned"]
    /\ UNCHANGED <<calls, embeddings, new_tokenized, INDEX, METADATA, TOKENIZED_CORPUS,
                   BM25_INDEX, index_lock, disk, vvars, pvars, cvars>>

\* embeddings = model.encode(chunks); new_tokenized = [tokenize_text(chunk) ...]
AddEncode(t) ==
    /\ tpc[t] = "call"
    /\ calls[t].chunks # <<>>
    /\ embeddings' = [embeddings EXCEPT ![t] = encode(calls[t].chunks)]
    /\ new_tokenized' = [new_tokenized EXCEPT ![t] =
                            [i \in 1..Len(calls[t].chunks) |-> tokenize_text(calls[t].chunks[i])]]
    /\ tpc' = [tpc EXCEPT ![t] = "encoded"]
    /\ UNCHANGED <<calls, INDEX, METADATA, TOKENIZED_CORPUS, BM25_INDEX, index_lock, disk,
                   vvars, pvars, cvars>>

\* with index_lock:
AddAcquire(t) ==
    /\ tpc[t] = "encoded"
    /\ lock_is_free(index_lock)
    /\ index_lock' = {t}
    /\ tpc' = [tpc EXCEPT ![t] = "locked"]
    /\ UNCHANGED <<calls, embeddings, new_tokenized, INDEX, METADATA, TOKENIZED_CORPUS,
                   BM25_INDEX, disk, vvars, pvars, cvars>>

\* INDEX.add(embeddings)
AddVectors(t) ==
    /\ tpc[t] = "locked"
    /\ INDEX' = INDEX \o embeddings[t]
    /\ tpc' = [tpc EXCEPT ![t] = "added"]
    /\ UNCHANGED <<calls, embeddings, new_tokenized, METADATA, TOKENIZED_CORPUS,
                   BM25_INDEX, index_lock, disk, vvars, pvars, cvars>>

\* METADATA.extend(metadatas)
AddMetadata(t) ==
    /\ tpc[t] = "added"
    /\ METADATA' = METADATA \o calls[t].metadatas
    /\ tpc' = [tpc EXCEPT ![t] = "extended"]
    /\ UNCHANGED <<calls, embeddings, new_tokenized, INDEX, TOKENIZED_CORPUS,
                   BM25_INDEX, index_lock, disk, vvars, pvars, cvars>>

\* TOKENIZED_CORPUS.extend(new_tokenized) and the rebuild of BM25_INDEX
AddCorpus(t) ==
    /\ tpc[t] = "extended"
    /\ TOKENIZED_CORPUS' = TOKENIZED_CORPUS \o new_tokenized[t]
    /\ BM25_INDEX' = IF TOKENIZED_CORPUS' # <<>> THEN BM25Okapi(TOKENIZED_CORPUS')
                     ELSE BM25_INDEX
    /\ tpc' = [tpc EXCEPT ![t] = "rebuilt"]
    /\ UNCHANGED <<calls, embeddings, new_tokenized, INDEX, METADATA, index_lock, disk,
                   vvars, pvars, cvars>>

\* the three files are written, the lock is released, the call returns
AddPersist(t) ==
    /\ tpc[t] = "rebuilt"
    /\ disk' = [index |-> INDEX, metadata |-> METADATA, bm25 |-> TOKENIZED_CORPUS]
    /\ index_lock' = NoThread
    /\ tpc' = [tpc EXCEPT ![t] = "returned"]
    /\ UNCHANGED <<calls, embeddings, new_tokenized, INDEX, METADATA, TOKENIZED_CORPUS,
                   BM25_INDEX, vvars, pvars, cvars>>

\* faiss.write_index wrote its file and opening METADATA_PATH raised: the
\* lock is released and the exception leaves the call
AddPersistFails(t) ==
    /\ tpc[t] = "rebuilt"
    /\ disk' = [disk EXCEPT !.index = INDEX]
    /\ index_lock' = NoThread
    /\ tpc' = [tpc EXCEPT ![t] = "raised"]
    /\ UNCHANGED <<calls, embeddings, new_tokenized, INDEX, METADATA, TOKENIZED_CORPUS,
                   BM25_INDEX, vvars, pvars, cvars>>

NextIndex ==
    \/ \E t \in Threads : AddNothing(t)
    \/ \E t \in Threads : AddEncode(t)
    \/ \E t \in Threads : AddAcquire(t)
    \/ \E t \in Threads : AddVectors(t)
    \/ \E t \in Threads : AddMetadata(t)
    \/ \E t \in Threads : AddCorpus(t)
    \/ \E t \in Threads : AddPersist(t)
    \/ \E t \in Threads : AddPersistFails(t)

SpecIndex == InitIndex /\ [][NextIndex]_vars

\* --------------------------------------------------- claims: the validator
LevelAt(hs, i) == IF i = 0 THEN 0 ELSE level_int(hs[i].level)

\* C1: in the list validate_hierarchy returns, every heading is at most one
\* level deeper than the heading before it, and the first heading (whose
\* predecessor level counts as 0) is at most H1.
C1_NoLevelSkip ==
    vpc # "input" =>
        \A i \in 1..Len(vheadings) : LevelAt(vheadings, i) <= LevelAt(vheadings, i - 1) + 1

\* C1 witness: an input with a skip (H1 directly followed by H3 or deeper) has
\* been validated and the skipping heading now sits one level below H1.
C1_Witness ==
    /\ vpc = "once"
    /\ Len(vinput) >= 2
    /\ LevelAt(vinput, 1) = 1
    /\ LevelAt(vinput, 2) >= 3
    /\ LevelAt(vheadings, 2) = 2

\* C2 (as claimed): a second run of validate_hierarchy on the list it
\* returned changes no heading.
C2_Idempotent == vpc = "twice" => vheadings = vonce

\* C3: validate_hierarchy never raises a level number: at every position the
\* returned level number is at most the level number that was passed in.
C3_NeverPromotes ==
    vpc # "input" =>
        /\ Len(vheadings) = Len(vinput)
        /\ \A i \in 1..Len(vheadings) : LevelAt(vheadings, i) <= LevelAt(vinput, i)

\* C3 witness: a run that both converted an H4 and demoted a skipping heading,
\* next to a heading it left alone.
C3_Witness ==
    /\ vpc = "once"
    /\ \E i, j, k \in 1..Len(vinput) :
          /\ LevelAt(vinput, i) = 4 /\ LevelAt(vheadings, i) = 3
          /\ LevelAt(vinput, j) = 3 /\ LevelAt(vheadings, j) < 3
          /\ LevelAt(vinput, k) = LevelAt(vheadings, k)

\* C4 (as claimed): every heading validate_hierarchy returns has a level in
\* {H1, H2, H3}, for any input of levels H1 and deeper.
C4_DepthCap ==
    vpc # "input" =>
        \A i \in 1..Len(vheadings) : LevelAt(vheadings, i) \in {1, 2, 3}

\* ---------------------------------------------------- claims: the pipeline
\* the (page, y0) of a block
Position(block) == <<block.page_num, bbox_y0(block)>>

\* the (page, y0) of the block a heading was made from
HeadingPosition(h) == Position(filtered_blocks[h.src])

PositionsAscend(hs) ==
    \A i \in 1..(Len(hs) - 1) :
        ~PairLess(HeadingPosition(hs[i + 1]), HeadingPosition(hs[i]))

SrcOrder(hs) == [i \in 1..Len(hs) |-> hs[i].src]

PositionsKept ==
    pc \in {"associate", "strip", "validate", "done"} =>
        PositionsAscend(headings) /\ (pc = "done" => PositionsAscend(result.outline))

OrderKept ==
    pc \in {"associate", "validate"} => SrcOrder(headings') = SrcOrder(headings)

\* C5: from the sort on, and in the outline that is returned, the headings are
\* in non-decreasing (page, y0) order of the blocks they come from; the
\* association step and the validation step leave the order of the headings
\* as it is.
C5_OrderingInvariant == ([]PositionsKept) /\ [][OrderKept]_vars

\* C5 witness: an outline of two or more headings was returned in which a
\* heading of a later block stands before a heading of an earlier block, so
\* block order and position order differ.
C5_Witness ==
    /\ pc = "done"
    /\ \E i, j \in 1..Len(result.outline) :
          i < j /\ result.outline[i].src > result.outline[j].src

\* how many of the distinct lower-cased words of the title the block contains
TitleWordsIn(block, ttl) ==
    Cardinality(WordSet(Lower(ttl)) \cap WordSet(Lower(block_text(block))))

TitleWordCount(ttl) == Cardinality(WordSet(Lower(ttl)))

\* C6 (as claimed): with a non-empty title, no heading of the returned outline
\* comes from a block that contains at least 70% of the distinct words of the
\* title.
C6_TitleExclusionAtLeast70 ==
    (pc = "done" /\ title # <<>>) =>
        \A i \in 1..Len(result.outline) :
            ~(TitleWordsIn(filtered_blocks[result.outline[i].src], title) * 10
                  >= TitleWordCount(title) * 7)

\* C6 (amended): with a non-empty title, no heading of the returned outline
\* comes from a block that contains more than 70% of the distinct words of
\* the title, whichever classification step produced the heading.
C6_TitleExclusionMoreThan70 ==
    (pc = "done" /\ title # <<>>) =>
        \A i \in 1..Len(result.outline) :
            ~(TitleWordsIn(filtered_blocks[result.outline[i].src], title) * 10
                  > TitleWordCount(title) * 7)

\* C6 witness: an outline with a heading was returned although a filtered
\* block other than the title line itself holds more than 70% of the words of
\* the title, and the classifier was loaded.
C6_Witness ==
    /\ pc = "done"
    /\ title # <<>>
    /\ predictor_loaded
    /\ result.outline # <<>>
    /\ \E k \in 1..Len(filtered_blocks) :
          /\ TitleWordsIn(filtered_blocks[k], title) * 10 > TitleWordCount(title) * 7
          /\ TitleWordsIn(filtered_blocks[k], title) < TitleWordCount(title)

\* C7 (as claimed): the text of a block that contains the title (more than
\* 70% of its words, which every reading of "contains" covers) is in no
\* entry of the returned outline: the block is the origin of no heading and
\* its text is inside no content string.
C7_TitleBlockNeitherHeadingNorContent ==
    (pc = "done" /\ title # <<>>) =>
        \A k \in 1..Len(filtered_blocks) :
            (TitleWordsIn(filtered_blocks[k], title) * 10 > TitleWordCount(title) * 7) =>
                \A i \in 1..Len(result.outline) :
                    /\ result.outline[i].src # k
                    /\ ~Contains(result.outline[i].content, content_text(filtered_blocks[k]))

\* the content window of heading i, stated on positions: the filtered blocks
\* that are the origin of no heading and lie strictly between heading i and
\* heading i + 1 (or after heading i, for the last one), in block order
WindowBlocks(hs, i) ==
    SelectSeq([k \in 1..Len(filtered_blocks) |-> k], LAMBDA k :
        /\ \A j \in 1..Len(hs) : hs[j].src # k
        /\ PairLess(<<hs[i].page, hs[i].y_pos>>, Position(filtered_blocks[k]))
        /\ \/ i = Len(hs)
           \/ PairLess(Position(filtered_blocks[k]), <<hs[i + 1].page, hs[i + 1].y_pos>>))

NonEmptyTexts(idx) ==
    SelectSeq([k \in 1..Len(idx) |-> content_text(filtered_blocks[idx[k]])],
              LAMBDA t : t # <<>>)

\* C8: after the association, the content of heading i is the non-empty texts
\* of the blocks of its window, in block order, joined by newlines.
C8_ContentWindow ==
    pc = "strip" =>
        \A i \in 1..Len(headings) :
            headings[i].content = Join(<<"\n">>, NonEmptyTexts(WindowBlocks(headings, i)))

\* C8 witness: after the association a heading has content, while a filtered
\* block with text that is no heading lies above that heading.
C8_Witness ==
    /\ pc = "strip"
    /\ \E i \in 1..Len(headings) :
          /\ headings[i].content # <<>>
          /\ \E k \in 1..Len(filtered_blocks) :
                /\ \A j \in 1..Len(headings) : headings[j].src # k
                /\ content_text(filtered_blocks[k]) # <<>>
                /\ PairLess(Position(filtered_blocks[k]), <<headings[i].page, headings[i].y_pos>>)

SameHeadings(before, after) ==
    /\ Len(after) = Len(before)
    /\ \A i \in 1..Len(before) :
          /\ after[i].src = before[i].src
          /\ after[i].text = before[i].text
          /\ after[i].page = before[i].page

HeadingsKept ==
    /\ pc \in {"associate", "validate"} => SameHeadings(headings, headings')
    /\ pc = "associate" =>
           \A i \in 1..Len(headings) :
               WindowBlocks(headings, i) = <<>> =>
                   (i <= Len(headings') /\ headings'[i].content = <<>>)

\* C9: the association step and the validation step return the headings they
\* were given, as many, in the same order, each with the text and the page it
\* had; a heading whose window holds no block leaves the association with the
\* empty string as content.
C9_NoHeadingAddedOrDropped == [][HeadingsKept]_vars

\* C9 witness: an outline of two headings was returned, one with content and
\* one whose content is the empty string.
C9_Witness ==
    /\ pc = "done"
    /\ \E i, j \in 1..Len(result.outline) :
          result.outline[i].content = <<>> /\ result.outline[j].content # <<>>

\* C10: a second run of the associator on the list it returned, with the
\* filtered blocks it had, changes nothing: every heading keeps its content.
C10_AssociatorRoundTrip ==
    [][pc = "strip" => headings' = headings]_vars

\* C10 witness: the associator has run a second time on headings of which one
\* has content and one has none.
C10_Witness ==
    /\ pc = "reassociated"
    /\ \E i, j \in 1..Len(headings) :
          headings[i].content = <<>> /\ headings[j].content # <<>>

\* ------------------------------------------------- claims: boilerplate removal
\* C11: in a document of fewer than 3 pages filter_headers_footers returns the
\* blocks it was given, and the filtered blocks that step 3 hands to the
\* classification are the blocks of the document without the tabular ones, in
\* their order, whatever text repeats.
C11_HeaderFooterPassNoOp ==
    (pc = "classify" /\ num_pages < 3) =>
        /\ filter_headers_footers(all_blocks, num_pages, doc_stats) = all_blocks
        /\ filtered_blocks =
               SelectSeq(all_blocks, LAMBDA b : ~is_table_block(b, all_blocks, doc_stats))

\* C11 witness: a document of two pages was processed whose pages carry the
\* same text at the same header position, and both blocks are among the
\* filtered blocks.
C11_Witness ==
    /\ pc = "done"
    /\ num_pages = 2
    /\ \E i, j \in 1..Len(filtered_blocks) :
          /\ filtered_blocks[i].page_num # filtered_blocks[j].page_num
          /\ pos_key(filtered_blocks[i]) = "header"
          /\ hf_key(filtered_blocks[i]) = hf_key(filtered_blocks[j])

InSeq(x, q) == \E i \in 1..Len(q) : q[i] = x

\* the blocks the header/footer pass keeps
AfterHeaderFooterPass == filter_headers_footers(all_blocks, num_pages, doc_stats)

\* no heading comes from a block with this (text, position) pair
NoHeadingCarries(key) ==
    \A i \in 1..Len(headings) : hf_key(filtered_blocks[headings[i].src]) # key

\* the number of pages on which some block has the (text, position) pair
PagesWithPair(key) ==
    Cardinality({all_blocks[i].page_num : i \in {j \in 1..Len(all_blocks) :
                                                   hf_key(all_blocks[j]) = key}})

\* C12 (as claimed): with 3 pages or more, every block whose (lower-cased
\* text, header or footer position) pair occurs on at least half of the pages
\* is dropped by the header/footer pass, and no heading comes from such a
\* block.
C12_EveryRepeatingPairDropped ==
    (pc \notin {"idle", "start"} /\ num_pages >= 3) =>
        \A i \in 1..Len(all_blocks) :
            (/\ pos_key(all_blocks[i]) # "None"
             /\ PagesWithPair(hf_key(all_blocks[i])) * 2 >= num_pages) =>
                /\ ~InSeq(all_blocks[i], AfterHeaderFooterPass)
                /\ NoHeadingCarries(hf_key(all_blocks[i]))

\* the pass counts the block: its text is 3 to 79 characters long and not a
\* number, it lies in the header or the footer zone, and it is not a native
\* block whose average font size exceeds 1.2 times the median
CountedAsBoilerplate(block) ==
    /\ Len(block_text(block)) > 2 /\ Len(block_text(block)) < 80
    /\ ~IsDigitText(block_text(block))
    /\ pos_key(block) # "None"
    /\ \/ block.source = "ocr"
       \/ SumSeq(SpanSizes(block)) * 10 <= doc_stats.median_size * 12 * Len(SpanSizes(block))

TimesCounted(key) ==
    Cardinality({i \in 1..Len(all_blocks) :
                    CountedAsBoilerplate(all_blocks[i]) /\ hf_key(all_blocks[i]) = key})

\* C12 (amended): with 3 pages or more, a (lower-cased text, header or footer
\* position) pair that the pass counts on blocks at least num_pages / 2
\* times is a signature: every block with that pair is dropped by the
\* header/footer pass, and no heading of the outline comes from such a block.
C12_CountedPairDropped ==
    (pc \in {"classify", "done"} /\ num_pages >= 3) =>
        \A i \in 1..Len(all_blocks) :
            (TimesCounted(hf_key(all_blocks[i])) * 2 >= num_pages) =>
                /\ ~InSeq(all_blocks[i], AfterHeaderFooterPass)
                /\ NoHeadingCarries(hf_key(all_blocks[i]))

\* C12 witness: a document of 3 pages or more was processed in which a pair
\* was counted often enough, its blocks are gone from the filtered blocks and
\* another block is left.
C12_Witness ==
    /\ pc = "done"
    /\ num_pages >= 3
    /\ filtered_blocks # <<>>
    /\ \E i \in 1..Len(all_blocks) :
          /\ TimesCounted(hf_key(all_blocks[i])) * 2 >= num_pages
          /\ ~InSeq(all_blocks[i], filtered_blocks)

\* C13 (as claimed): the header/footer pass keeps every native block whose
\* average font size exceeds 1.2 times the median of the document.
C13_LargeTextNeverRemoved ==
    pc \notin {"idle", "start"} =>
        \A i \in 1..Len(all_blocks) :
            (/\ all_blocks[i].source # "ocr"
             /\ SumSeq(SpanSizes(all_blocks[i])) * 10
                    > doc_stats.median_size * 12 * Len(SpanSizes(all_blocks[i]))) =>
                InSeq(all_blocks[i], AfterHeaderFooterPass)

\* ------------------------------------------------------- claims: OCR blocks
BlockArea(block) == (block.bbox[3] - block.bbox[1]) * (block.bbox[4] - block.bbox[2])

\* the block is large and short: area > 50000 and fewer than 10 words
LargeAndShort(block) == BlockArea(block) > 50000 /\ WordCount(block_text(block)) < 10

\* the block heading i comes from
HeadingBlock(i) == filtered_blocks[headings[i].src]

\* C14 (as claimed): a heading comes from an OCR block only if the block's
\* area exceeds 50000 and it has fewer than 10 words, and the heading is then
\* an H1.
C14_OcrHeadingOnlyLargeAndShort ==
    \A i \in 1..Len(headings) :
        HeadingBlock(i).source = "ocr" =>
            LargeAndShort(HeadingBlock(i)) /\ headings[i].level = HLabel(1)

\* C14 (amended): a heading comes from an OCR block only by one of the two
\* rules: the numbered rule, with the level of its numbering until the
\* hierarchy is validated, or else the styled rule, and then the block's area
\* exceeds 50000, it has fewer than 10 words and the heading is an H1.  The
\* classifier never makes a heading of an OCR block.
C14_OcrHeadingOnlyByRule ==
    \A i \in 1..Len(headings) :
        HeadingBlock(i).source = "ocr" =>
            IF numbered_level(block_text(HeadingBlock(i))) # NoLevel
            THEN pc # "done" =>
                     headings[i].level = numbered_level(block_text(HeadingBlock(i)))
            ELSE LargeAndShort(HeadingBlock(i)) /\ headings[i].level = HLabel(1)

\* C14 witness: a finished outline holds a heading from a large and short OCR
\* block and a heading from a small OCR block that starts with a numbering,
\* and an OCR block without numbering was handed to the fallback while the
\* classifier was loaded.
C14_Witness ==
    /\ pc = "done"
    /\ predictor_loaded
    /\ \E k \in 1..Len(blocks_for_ml) : filtered_blocks[blocks_for_ml[k]].source = "ocr"
    /\ \E i, j \in 1..Len(headings) :
          /\ HeadingBlock(i).source = "ocr" /\ HeadingBlock(j).source = "ocr"
          /\ LargeAndShort(HeadingBlock(i))
          /\ ~LargeAndShort(HeadingBlock(j))
          /\ numbered_level(block_text(HeadingBlock(j))) # NoLevel

\* ------------------------------------------- claims: classifier unavailable
\* the last three steps of the pipeline on a list of headings
FinishedOutline(hs) ==
    validate_hierarchy([i \in 1..Len(hs) |-> strip_heading(hs[i])])

\* the outline made of the headings of the two rules alone
HeuristicOutline ==
    FinishedOutline(associate_content_to_headings(
        sort_headings(heuristic_headings(filtered_blocks, 1, doc_stats, title)),
        filtered_blocks))

\* C18: when the classifier's artifacts are missing, the fallback adds no
\* heading and the extraction finishes: the headings after the fallback step
\* are the headings of the two rules, and the outline returned is the outline
\* made of them alone.
C18_MissingClassifierKeepsHeuristics ==
    ~predictor_loaded =>
        /\ pc = "sort" => headings = heuristic_headings(filtered_blocks, 1, doc_stats, title)
        /\ (pc = "done" /\ all_blocks # <<>>) => result.outline = HeuristicOutline

\* C18 witness: an extraction finished without the classifier although blocks
\* with a feature vector were left for it, and its outline is not empty.
C18_Witness ==
    /\ pc = "done"
    /\ ~predictor_loaded
    /\ valid_blocks(blocks_for_ml, filtered_blocks, doc_stats, title) # <<>>
    /\ result.outline # <<>>

\* ------------------------------------------------ claims: the page provider
\* C15 (as claimed): no exception leaves extract_structure_from_pdf, whatever
\* fails: the document does not open, the OCR of a page fails, the classifier
\* is missing, a block lacks its spans or its bbox.
C15_NoExceptionPropagates == pc # "raised"

\* the document was handed to extract_text_blocks and did not open
OpenFailed == pc # "open" /\ ~pdf.opens

\* C16: when the document does not open, extract_text_blocks returns no block
\* and extract_structure_from_pdf returns the empty title and the empty
\* outline, without running any later step.
C16_OpenFailureReturnsEmpty ==
    OpenFailed =>
        /\ all_blocks = <<>>
        /\ pc \in {"start", "done"}
        /\ num_pages = 0 /\ title = <<>> /\ filtered_blocks = <<>>
        /\ headings = <<>> /\ blocks_for_ml = <<>> /\ ~predictor_loaded
        /\ result = [title |-> <<>>, outline |-> <<>>]

\* C16 witness: the extraction of a document that does not open, and whose
\* pages hold blocks, has returned.
C16_Witness ==
    /\ pc = "done"
    /\ ~pdf.opens
    /\ blocks_of_pages(pdf.pages, 0) # <<>>

\* the document was read
Read == pc # "open" /\ pdf.opens

\* the indices of the scanned pages whose OCR fails
FailingPages ==
    {n \in 0..(Len(pdf.pages) - 1) :
        pdf.pages[n + 1].text_blocks < 3 /\ pdf.pages[n + 1].ocr.fails}

\* the document with a blank page in the place of every page whose OCR fails
WithoutFailingPages ==
    [opens |-> pdf.opens,
     pages |-> [k \in 1..Len(pdf.pages) |->
                   IF (k - 1) \in FailingPages THEN PageBlank ELSE pdf.pages[k]]]

\* C17: a page whose OCR fails contributes no block, and the blocks returned
\* are those of the other pages, with their page indices, as for the document
\* in which the failing pages have nothing on them.
C17_OcrFailureIsolated ==
    Read =>
        /\ \A i \in 1..Len(all_blocks) : all_blocks[i].page_num \notin FailingPages
        /\ all_blocks = extract_text_blocks(WithoutFailingPages)

\* C17 witness: the extraction finished on a document in which the OCR of a
\* page failed and a later page gave blocks.
C17_Witness ==
    /\ pc = "done"
    /\ pdf.opens
    /\ \E n \in FailingPages : \E i \in 1..Len(all_blocks) : all_blocks[i].page_num > n

\* C19: every block returned carries a page index of the document and the
\* width and height of that page; the blocks of a page with fewer than 3 text
\* blocks are all OCR blocks, the blocks of a page with 3 text blocks or more
\* are all native.
C19_PageOriginExclusive ==
    Read =>
        \A i \in 1..Len(all_blocks) :
            /\ {"page_num", "page_height", "page_width", "source"} \subseteq DOMAIN all_blocks[i]
            /\ all_blocks[i].page_num \in 0..(Len(pdf.pages) - 1)
            /\ all_blocks[i].page_height = pdf.pages[all_blocks[i].page_num + 1].height
            /\ all_blocks[i].page_width = pdf.pages[all_blocks[i].page_num + 1].width
            /\ all_blocks[i].source =
                   (IF pdf.pages[all_blocks[i].page_num + 1].text_blocks < 3
                    THEN "ocr" ELSE "pymupdf")

\* C19 witness: the extraction finished on a document with a native page and
\* a scanned page that has text blocks of its own, and both gave blocks.
C19_Witness ==
    /\ pc = "done"
    /\ \E i, j \in 1..Len(all_blocks) :
          /\ all_blocks[i].source = "ocr"
          /\ pdf.pages[all_blocks[i].page_num + 1].blocks # <<>>
          /\ all_blocks[j].source = "pymupdf"

\* "".join of the span texts of a line, stripped
StrippedLine(line) ==
    Strip(Concat([k \in 1..Len(line.spans) |-> line.spans[k].text]))

\* C20 (as claimed): every native block returned has a line with non-empty
\* text.
C20_NativeBlocksHaveText ==
    Read =>
        \A i \in 1..Len(all_blocks) :
            all_blocks[i].source = "pymupdf" =>
                \E k \in 1..Len(all_blocks[i].lines) :
                    StrippedLine(all_blocks[i].lines[k]) # <<>>

\* the block as the page listed it
Untagged(block) ==
    [f \in DOMAIN block \ {"page_num", "source", "page_height", "page_width"} |-> block[f]]

BlocksOfPage(n) == SelectSeq(all_blocks, LAMBDA b : b.page_num = n)

\* C20 (amended): the native blocks returned for a page are all the blocks of
\* the page that are of type 0 (text) and have lines, in the page's order,
\* whatever their text.
C20_NativeBlocksAreTextBlocks ==
    Read =>
        \A n \in 0..(Len(pdf.pages) - 1) :
            pdf.pages[n + 1].text_blocks >= 3 =>
                [k \in 1..Len(BlocksOfPage(n)) |-> Untagged(BlocksOfPage(n)[k])]
                    = SelectSeq(pdf.pages[n + 1].blocks,
                                LAMBDA b : b.type = 0 /\ "lines" \in DOMAIN b)

\* C20 witness: the extraction finished with a native block whose text is
\* blank among the blocks, next to a picture that was left out.
C20_Witness ==
    /\ pc = "done"
    /\ \E i \in 1..Len(all_blocks) :
          /\ all_blocks[i].source = "pymupdf"
          /\ block_text(all_blocks[i]) = <<>>
          /\ \E k \in 1..Len(pdf.pages[all_blocks[i].page_num + 1].blocks) :
                pdf.pages[all_blocks[i].page_num + 1].blocks[k].type = 1

\* ------------------------------------------------ claims: document statistics
\* the font sizes of the spans of the non-OCR blocks of the document
NativeFontSizes ==
    Concat([i \in 1..Len(all_blocks) |->
               IF all_blocks[i].source = "ocr" THEN <<>>
               ELSE [k \in 1..Len(SpansOf(all_blocks[i])) |-> SpansOf(all_blocks[i])[k].size]])

\* the size at position k (from 0) of the sorted list: at most k sizes are
\* smaller and more than k sizes are not larger
SizeAtRank(sizes, k) ==
    CHOOSE v \in {sizes[i] : i \in 1..Len(sizes)} :
        /\ Cardinality({i \in 1..Len(sizes) : sizes[i] < v}) <= k
        /\ Cardinality({i \in 1..Len(sizes) : sizes[i] <= v}) > k

\* the statistics do not change when the OCR blocks are taken away
StatsIgnoreOcr ==
    get_document_stats(all_blocks)
        = get_document_stats(SelectSeq(all_blocks, LAMBDA b : b.source # "ocr"))

C22_HeadingPagesInRange ==
    pc \notin {"idle", "open", "start", "raised"} =>
        /\ \A i \in 1..Len(headings) :
              headings[i].page >= 0 /\ headings[i].page < num_pages
        /\ \A i \in 1..Len(result.outline) :
              result.outline[i].page >= 0 /\ result.outline[i].page < num_pages

\* C22 witness: an outline was returned for a document whose first pages hold
\* no block, with a heading on its last page.
C22_Witness ==
    /\ pc = "done"
    /\ \A i \in 1..Len(all_blocks) : all_blocks[i].page_num > 1
    /\ \E i \in 1..Len(result.outline) : result.outline[i].page = num_pages - 1

\* ------------------------------------------------- claims: the heading rules
\* the block is handed to the two rules by the classification loop
Classified(k) == ~is_skipped(filtered_blocks[k], filtered_blocks, doc_stats, title)

\* the heading of filtered block k, if there is one, has this level
HeadingOfBlockHas(k, level) ==
    \A i \in 1..Len(headings) : headings[i].src = k => headings[i].level = level

NumberedLevelOf(k) == classify_numbered_heading(filtered_blocks[k], filtered_blocks, doc_stats)
StyledLevelOf(k) == classify_styled_heading(filtered_blocks[k], doc_stats, filtered_blocks)

\* C23: a block the numbered rule matches gets the level of the numbered
\* rule; a block only the styled rule matches gets the level of the styled
\* rule; a block matched by a rule is not handed to the classifier, a block
\* matched by no rule is and has no heading before the classifier ran; and no
\* two headings come from the same block.
C23_FirstMatchWins ==
    /\ pc \in {"ml", "sort"} =>
          \A k \in 1..Len(filtered_blocks) :
              Classified(k) =>
                  IF NumberedLevelOf(k) # NoLevel
                  THEN /\ HeadingOfBlockHas(k, NumberedLevelOf(k))
                       /\ \A j \in 1..Len(blocks_for_ml) : blocks_for_ml[j] # k
                  ELSE IF StyledLevelOf(k) # NoLevel
                  THEN /\ HeadingOfBlockHas(k, StyledLevelOf(k))
                       /\ \A j \in 1..Len(blocks_for_ml) : blocks_for_ml[j] # k
                  ELSE /\ \E j \in 1..Len(blocks_for_ml) : blocks_for_ml[j] = k
                       /\ pc = "ml" => \A i \in 1..Len(headings) : headings[i].src # k
    /\ \A i, j \in 1..Len(headings) : headings[i].src = headings[j].src => i = j

\* C23 witness: the classifier was loaded and a heading stands for a block
\* that the numbered rule and the styled rule give different levels.
C23_Witness ==
    /\ pc = "sort"
    /\ \E i \in 1..Len(headings) :
          /\ NumberedLevelOf(headings[i].src) # NoLevel
          /\ StyledLevelOf(headings[i].src) # NoLevel
          /\ NumberedLevelOf(headings[i].src) # StyledLevelOf(headings[i].src)

\* the first word of a text and what follows it
FirstWordLen(t) == IF \E i \in 1..Len(t) : t[i] = " "
                   THEN (CHOOSE i \in 1..Len(t) : t[i] = " " /\ \A j \in 1..(i - 1) : t[j] # " ") - 1
                   ELSE Len(t)

\* the numeral at the start of a text, without the dot that may end it
NumeralOf(t) ==
    IF FirstWordLen(t) > 1 /\ t[FirstWordLen(t)] = "."
    THEN SubSeq(t, 1, FirstWordLen(t) - 1)
    ELSE SubSeq(t, 1, FirstWordLen(t))

\* <n>(.<n>)*: digits and dots, a digit at both ends and on both sides of a dot
IsNumeral(n) ==
    /\ n # <<>>
    /\ \A i \in 1..Len(n) : IsDigitChar(n[i]) \/ n[i] = "."
    /\ IsDigitChar(n[1]) /\ IsDigitChar(n[Len(n)])
    /\ \A i \in 1..(Len(n) - 1) : n[i] = "." => n[i + 1] # "."

LabelOf(t) == Strip(SubSeq(t, FirstWordLen(t) + 1, Len(t)))

\* the text is a numeral and a label without digits
NumeralAndLabel(t) ==
    /\ IsNumeral(NumeralOf(t))
    /\ LabelOf(t) # <<>>
    /\ \A i \in 1..Len(LabelOf(t)) : ~IsDigitChar(LabelOf(t)[i])

DotsIn(n) == Cardinality({i \in 1..Len(n) : n[i] = "."})

\* the level the claim gives a numeral and a label
ClaimedNumberedLevel(t) ==
    IF /\ DotsIn(NumeralOf(t)) + 1 <= 3
       /\ ~(WordCount(LabelOf(t)) < 2 /\ Len(LabelOf(t)) < 15)
    THEN HLabel(DotsIn(NumeralOf(t)) + 1)
    ELSE NoLevel

\* C24: for a non-tabular block whose text is a numeral <n>(.<n>)* and a
\* label (without digits), the numbered rule gives H(k + 1), k being the
\* number of dots in the numeral, when k + 1 <= 3 and the label is not both
\* under 2 words and under 15 characters, and no match otherwise; a block
\* whose text does not start with a numeral gets no match; whatever the
\* label, a match is H(k + 1) with k + 1 <= 3; and the heading made for the
\* block carries that level.
C24_NumberedRule ==
    pc = "ml" =>
        \A k \in 1..Len(filtered_blocks) :
            Classified(k) =>
                /\ NumeralAndLabel(block_text(filtered_blocks[k])) =>
                       NumberedLevelOf(k) = ClaimedNumberedLevel(block_text(filtered_blocks[k]))
                /\ ~IsNumeral(NumeralOf(block_text(filtered_blocks[k]))) =>
                       NumberedLevelOf(k) = NoLevel
                /\ NumberedLevelOf(k) # NoLevel =>
                       /\ DotsIn(NumeralOf(block_text(filtered_blocks[k]))) + 1 <= 3
                       /\ NumberedLevelOf(k)
                              = HLabel(DotsIn(NumeralOf(block_text(filtered_blocks[k]))) + 1)
                /\ NumberedLevelOf(k) # NoLevel =>
                       \E i \in 1..Len(headings) :
                           headings[i].src = k /\ headings[i].level = NumberedLevelOf(k)

\* C24 witness: the rule was applied to a block numbered four deep, which got
\* no heading from it.
C24_Witness ==
    /\ pc = "ml"
    /\ \E k \in 1..Len(filtered_blocks) :
          /\ Classified(k)
          /\ NumeralAndLabel(block_text(filtered_blocks[k]))
          /\ DotsIn(NumeralOf(block_text(filtered_blocks[k]))) = 3
          /\ NumberedLevelOf(k) = NoLevel

\* the native block passes the rejections of the styled rule: 1 to 29
\* words, no '.', ':' or ',' at the end, no table-of-contents ending
PassesRejections(block) ==
    /\ block.source # "ocr"
    /\ WordCount(block_text(block)) >= 1 /\ WordCount(block_text(block)) < 30
    /\ block_text(block)[Len(block_text(block))] \notin {".", ":", ","}
    /\ ~EndsWithDottedLeader(block_text(block))
    /\ ~(EndsWithNumber(block_text(block)) /\ WordCount(block_text(block)) > 5)

\* average size of the block > (num / den) x median
SizeExceeds(block, num, den) ==
    /\ SpanSizes(block) # <<>>
    /\ SumSeq(SpanSizes(block)) * den > doc_stats.median_size * num * Len(SpanSizes(block))

BoldOrCaps(block) == block_is_bold(block) \/ IsUpperText(block_text(block))

\* the level the claim gives a native block that passes the rejections
ClaimedStyledLevel(block) ==
    IF SizeExceeds(block, 14, 10) /\ BoldOrCaps(block) THEN HLabel(1)
    ELSE IF SizeExceeds(block, 125, 100) /\ BoldOrCaps(block) THEN HLabel(2)
    ELSE IF \/ SizeExceeds(block, 115, 100) /\ block_is_bold(block)
            \/ SizeExceeds(block, 12, 10) /\ IsTitleText(block_text(block))
    THEN HLabel(3)
    ELSE NoLevel

\* C25: for a native, non-tabular block that passes the rejections the styled
\* rule gives H1 iff size > 1.4 x median and (bold or all-caps), otherwise H2
\* iff size > 1.25 x median and (bold or all-caps), otherwise H3 iff (size >
\* 1.15 x median and bold) or (size > 1.2 x median and title-case), otherwise
\* no match; a block at or below 1.15 x median gets no match; and a block the
\* numbered rule does not match gets the heading of that level.
C25_StyledThresholds ==
    pc = "ml" =>
        \A k \in 1..Len(filtered_blocks) :
            (Classified(k) /\ PassesRejections(filtered_blocks[k])) =>
                /\ StyledLevelOf(k) = ClaimedStyledLevel(filtered_blocks[k])
                /\ ~SizeExceeds(filtered_blocks[k], 115, 100) => StyledLevelOf(k) = NoLevel
                /\ (NumberedLevelOf(k) = NoLevel /\ StyledLevelOf(k) # NoLevel) =>
                       \E i \in 1..Len(headings) :
                           headings[i].src = k /\ headings[i].level = StyledLevelOf(k)

\* ------------------------------------------------------- claims: the title
\* the lines of the native blocks of page 0
NativeFirstPageLines ==
    UNION {{all_blocks[i].lines[l] : l \in 1..Len(all_blocks[i].lines)} :
           i \in {j \in 1..Len(all_blocks) :
                     all_blocks[j].page_num = 0 /\ all_blocks[j].source # "ocr"}}

NativeFirstPageWords ==
    UNION {{Split(line_text(ln))[w] : w \in 1..Len(Split(line_text(ln)))} :
           ln \in NativeFirstPageLines}

\* the title is made of words of native lines of page 0
MadeOfNativeFirstPageWords(ttl) ==
    \A w \in 1..Len(Split(ttl)) : Split(ttl)[w] \in NativeFirstPageWords

\* C26: the title find_title returns, and the title of the result, hold only
\* words of lines of native blocks of page 0, and are empty when page 0 has no
\* native block.
C26_TitleOnlyFromNativeFirstPage ==
    pc # "start" =>
        /\ MadeOfNativeFirstPageWords(title)
        /\ pc = "done" => MadeOfNativeFirstPageWords(result.title)
        /\ (\A i \in 1..Len(all_blocks) :
                all_blocks[i].page_num = 0 => all_blocks[i].source = "ocr") => title = <<>>

\* ------------------------------------------------------ claims: the filter
\* the block matches a boilerplate signature: the document has 3 pages or
\* more and the pass counts the block's (text, position) pair often enough
MatchesSignature(block) ==
    num_pages >= 3 /\ TimesCounted(hf_key(block)) * 2 >= num_pages

\* the block is tabular among the blocks of the document
Tabular(block) == is_table_block(block, all_blocks, doc_stats)

\* the indices of the input blocks the filter is to keep
KeptIndices == {i \in 1..Len(all_blocks) :
                   ~MatchesSignature(all_blocks[i]) /\ ~Tabular(all_blocks[i])}

\* q is all_blocks restricted to the indices in kept, in the order of all_blocks
IsRestriction(q, kept) ==
    /\ Len(q) = Cardinality(kept)
    /\ \A k \in 1..Len(q) :
          \E i \in kept :
              /\ q[k] = all_blocks[i]
              /\ Cardinality({j \in kept : j < i}) = k - 1

\* C27: whatever the page count, the filtered blocks are the input blocks
\* that match no boilerplate signature and are not tabular, unchanged and in
\* the order of the input; no tabular block and no other block is among them.
C27_FilterKeepsExactlyTheRest ==
    pc = "classify" =>
        /\ IsRestriction(filtered_blocks, KeptIndices)
        /\ \A k \in 1..Len(filtered_blocks) :
              InSeq(filtered_blocks[k], all_blocks) /\ ~Tabular(filtered_blocks[k])

\* C27 witness: a document of fewer than 3 pages lost a tabular block and
\* kept its two other blocks.
C27_Witness ==
    /\ pc = "classify"
    /\ num_pages < 3
    /\ Len(filtered_blocks) = 2
    /\ Len(all_blocks) = 3
    /\ \E i \in 1..Len(all_blocks) : Tabular(all_blocks[i])

\* --------------------------------------------------- claims: content windows
\* (page, y) of a precedes (page, y) of b
Precedes(pa, ya, pb, yb) == pa < pb \/ (pa = pb /\ ya < yb)

\* filtered block k lies in the window of heading i: it is at the position
\* of no heading, after heading i and before heading i + 1 if there is one
InWindow(k, i) ==
    /\ \A j \in 1..Len(headings) :
          <<filtered_blocks[k].page_num, bbox_y0(filtered_blocks[k])>>
              # <<headings[j].page, headings[j].y_pos>>
    /\ Precedes(headings[i].page, headings[i].y_pos,
                filtered_blocks[k].page_num, bbox_y0(filtered_blocks[k]))
    /\ i < Len(headings) =>
          Precedes(filtered_blocks[k].page_num, bbox_y0(filtered_blocks[k]),
                   headings[i + 1].page, headings[i + 1].y_pos)

\* the texts of the blocks of the window of heading i, one per line
WindowContent(i) ==
    Join(<<"\n">>,
         SelectSeq([k \in 1..Len(filtered_blocks) |->
                       IF InWindow(k, i) THEN content_text(filtered_blocks[k]) ELSE <<>>],
                   LAMBDA t : t # <<>>))

\* C28: once the headings are sorted and the content is associated, the
\* content of each heading is the text of the blocks of its window; no
\* filtered block is in the window of two headings; and a block that
\* precedes the first heading is in no window.
C28_ContentWindowsDisjoint ==
    pc = "strip" =>
        /\ \A i \in 1..Len(headings) : headings[i].content = WindowContent(i)
        /\ \A k \in 1..Len(filtered_blocks) :
              /\ \A i, j \in 1..Len(headings) : (InWindow(k, i) /\ InWindow(k, j)) => i = j
              /\ (/\ headings # <<>>
                  /\ Precedes(filtered_blocks[k].page_num, bbox_y0(filtered_blocks[k]),
                              headings[1].page, headings[1].y_pos)) =>
                     \A i \in 1..Len(headings) : ~InWindow(k, i)

\* C28 witness: two headings and a block after both; the block is content of
\* the second heading and the first heading has none.
C28_Witness ==
    /\ pc = "strip"
    /\ Len(headings) = 2
    /\ headings[1].content = <<>>
    /\ headings[2].content # <<>>
    /\ \E k \in 1..Len(filtered_blocks) : InWindow(k, 2)

\* --------------------------------------------------------- claims: chunking
\* every sentence of the input is in the slice of a chunk, and the text of a
\* chunk is its slice of the sentences joined by spaces
ChunksCoverSentences ==
    /\ \A i \in 1..Len(sentences) :
          \E k \in 1..Len(chunks) : chunks[k].from < i /\ i <= chunks[k].to
    /\ \A k \in 1..Len(chunks) :
          chunks[k].text = Join(<<" ">>, SubSeq(sentences, chunks[k].from + 1, chunks[k].to))

ChunkStartsIncrease ==
    \A k \in 1..(Len(chunks) - 1) : chunks[k].from < chunks[k + 1].from

LastChunkEndsAtLastSentence ==
    sentences # <<>> => (chunks # <<>> /\ chunks[Len(chunks)].to = Len(sentences))

\* C30: chunk_text returns, for every sentence list, every chunk_size >= 1
\* and every chunk_overlap >= 0; when it has returned, every sentence is in
\* a chunk, the chunks start at increasing positions and the last chunk ends
\* at the last sentence.
C30_ChunkingTerminates ==
    /\ <>(cpc = "done")
    /\ [](cpc = "done" =>
            /\ ChunksCoverSentences
            /\ ChunkStartsIncrease
            /\ LastChunkEndsAtLastSentence)

\* C30 witness: chunk_text returned three chunks or more for an overlap that
\* is not smaller than the chunk size.
C30_Witness ==
    /\ cpc = "done"
    /\ chunk_overlap >= chunk_size
    /\ Len(chunks) >= 3
    /\ chunks[2].from = chunks[1].from + 1

\* ------------------------------------------------- claims: the search index
\* the thread whose call a chunk text belongs to
OwnerOfChunk(chunk) ==
    CHOOSE t \in Threads : \E i \in 1..Len(ChunkTexts(t)) : ChunkTexts(t)[i] = chunk

OwnerOfTokens(tokens) ==
    CHOOSE t \in Threads :
        \E i \in 1..Len(ChunkTexts(t)) : tokenize_text(ChunkTexts(t)[i]) = tokens

\* the entries of one owner are next to each other
Contiguous(owners) ==
    \A i, j, k \in 1..Len(owners) :
        (i < j /\ j < k /\ owners[i] = owners[k]) => owners[j] = owners[i]

\* entry i of the three lists is about the chunk of METADATA[i]
EntryAligned(i) ==
    /\ INDEX[i] = encode(<<METADATA[i].chunk_text>>)[1]
    /\ TOKENIZED_CORPUS[i] = tokenize_text(METADATA[i].chunk_text)

====
